---- MODULE Spec2Model ----
(***************************************************************************)
(* Task scheduling and autonomous execution: the SQLite task store         *)
(* (runner/TaskQueue.ts) and the per-agent polling loop that executes      *)
(* claimed tasks step by step (runner/AgentRunner.ts).                     *)
(*                                                                         *)
(* Time is Date.now() in milliseconds.  The store keeps timestamps as      *)
(* Date.toISOString() strings, which are fixed-width UTC strings whose     *)
(* lexicographic order is the numeric order of the instants; they are      *)
(* modelled by the instants themselves.  A nullable column or an optional  *)
(* field is a sequence of length 0 (NULL / undefined) or 1.                *)
(***************************************************************************)
EXTENDS Integers, Sequences, FiniteSets, TLC

\* ------------------------------------------------------------ constants
POLL_INTERVAL_MS == 3000
MAX_STEPS_PER_RUN == 20
MAX_CONSECUTIVE_FAILURES == 3
STATUS_UPDATE_INTERVAL_MS == 300000
STALE_RUNNING_MS == 300000
DEFAULT_PRIORITY == 3
RATE_LIMIT_COOLDOWN_MS == 60000
MAX_RETRIES == 3

\* ------------------------------------------------------------ bounds
MaxTasks == 2
MaxStoreTasks == 2
MaxAdvances == 1
MaxRuns == 2
MaxCalls == 2
MaxPlanLen == 3
MaxDispatches == 2

\* Date.now() when the process starts: later than any rate-limit window.
StartTime == STATUS_UPDATE_INTERVAL_MS + STALE_RUNNING_MS

NULL == <<>>
Some(x) == <<x>>
IsNull(v) == Len(v) = 0
Val(v) == v[1]

Agents == {"A", "B"}
RunnerAgent == "A"
TaskStatus == {"queued", "running", "done", "failed", "paused"}
Goal == "goal"

\* A status reason: its text, the count it cites and the alert types it lists.
Reason(text, count, types) == [text |-> text, count |-> count, types |-> types]
StaleReason == Reason("reset after stale run", 0, <<>>)
Note == Reason("note", 0, <<>>)

\* Recurrence rules: absent, once, every(intervalMs), cron(expr).
NoRecurrence == [kind |-> "absent", intervalMs |-> 0]
Once == [kind |-> "once", intervalMs |-> 0]
Every(ms) == [kind |-> "every", intervalMs |-> ms]
Cron == [kind |-> "cron", intervalMs |-> 0]

VARIABLES
    now,          \* Date.now()
    advances,     \* how often the clock has advanced (bounds the model)
    tasks,        \* table tasks, in insertion order; a task's id is its index
    taskRuns,     \* table task_runs: run id -> saved run
    agentState,   \* table agent_state: at most one row per agent
    running,      \* AgentRunner.running
    pollTimer,    \* AgentRunner.pollTimer: when the interval fires next, or NULL
    lastStatusAt, \* AgentRunner.lastStatusAt
    execs,        \* the activations of tick/executeTask, in start order
    episodic,     \* entries stored in the episodic memory collaborator
    conns,        \* other connections to the database, inside claimNext
    calls,        \* store API calls made by direct callers (bounds the model)
    lastClaim,    \* what the last direct claimNext call returned
    limits,       \* how many tasks and activations the model lets the run have
    keyHealth,    \* LLMRouter.keyHealth, in the order the keys were loaded
    dispatches,   \* the activations of LLMRouter.complete / embed
    lastCall,     \* the last store API call a direct caller made
    lastEmitAt    \* when the activity feed last took a status message, or NULL

vars == <<now, advances, tasks, taskRuns, agentState, running, pollTimer,
          lastStatusAt, execs, episodic, conns, calls, lastClaim, limits,
          keyHealth, dispatches, lastCall, lastEmitAt>>

storeVars == <<tasks, taskRuns, agentState>>
runnerVars == <<running, pollTimer, lastStatusAt, execs, episodic>>
routerVars == <<keyHealth, dispatches>>

TaskIds == 1..Len(tasks)

\* ------------------------------------------------------------ TaskQueue
\* NextRunFor that schedules no next run.
NextRunForUnset(rule, t) == NULL

\* nextRunFor(rule)
NextRunFor(rule, t) ==
    IF rule.kind = "once" THEN NULL
    ELSE IF rule.kind = "every" THEN Some(t + rule.intervalMs)
    ELSE NULL

\* The row enqueue inserts.
NewTask(agentId, hasUrl, priority, recurrence, nextRunAt, t) ==
    [agentId |-> agentId, status |-> "queued", priority |-> priority,
     goal |-> Goal, hasUrl |-> hasUrl, recurrence |-> recurrence,
     nextRunAt |-> nextRunAt, statusReason |-> NULL,
     createdAt |-> t, updatedAt |-> t]

EnqueueRow(ts, agentId, hasUrl, priority, recurrence, nextRunAt, t) ==
    Append(ts, NewTask(agentId, hasUrl, priority, recurrence, nextRunAt, t))

\* Eligible without the next_run_at condition.
EligibleIgnoringNextRun(ts, agentId, t) ==
    {i \in 1..Len(ts) : ts[i].agentId = agentId /\ ts[i].status = "queued"}

\* WHERE agent_id = ? AND status = 'queued' AND (next_run_at IS NULL OR next_run_at <= ?)
Eligible(ts, agentId, t) ==
    {i \in 1..Len(ts) :
        /\ ts[i].agentId = agentId
        /\ ts[i].status = "queued"
        /\ (IsNull(ts[i].nextRunAt) \/ Val(ts[i].nextRunAt) <= t)}

\* OrderedBefore with created_at DESC.
OrderedNewestFirst(ts, i, j) ==
    \/ ts[i].priority < ts[j].priority
    \/ ts[i].priority = ts[j].priority /\ ts[i].createdAt > ts[j].createdAt

\* ORDER BY priority ASC, created_at ASC
OrderedBefore(ts, i, j) ==
    \/ ts[i].priority < ts[j].priority
    \/ ts[i].priority = ts[j].priority /\ ts[i].createdAt < ts[j].createdAt

\* The rows SELECT ... ORDER BY ... LIMIT 1 may return: SQL leaves the order of
\* rows that tie on (priority, created_at) open.
SelectNext(ts, agentId, t) ==
    {i \in Eligible(ts, agentId, t) :
        \A j \in Eligible(ts, agentId, t) : ~OrderedBefore(ts, j, i)}

\* UPDATE tasks SET status = 'running', updated_at = ? WHERE id = ?
MarkRunning(ts, id, t) ==
    [ts EXCEPT ![id].status = "running", ![id].updatedAt = t]

\* updateStatus(taskId, status, reason?)
UpdateStatus(ts, id, status, reason, t) ==
    [ts EXCEPT ![id].status = status, ![id].statusReason = reason,
               ![id].updatedAt = t]

\* RequeueRecurring without the early return for once and absent recurrences.
RequeueAlways(ts, id, recurrence, t) ==
    [ts EXCEPT ![id].status = "queued",
               ![id].nextRunAt = NextRunFor(recurrence, t),
               ![id].statusReason = NULL,
               ![id].updatedAt = t]

\* requeueRecurring(task)
RequeueRecurring(ts, id, recurrence, t) ==
    IF recurrence.kind \in {"absent", "once"} THEN ts
    ELSE [ts EXCEPT ![id].status = "queued",
                    ![id].nextRunAt = NextRunFor(recurrence, t),
                    ![id].statusReason = NULL,
                    ![id].updatedAt = t]

\* ResetStale that resets every running task, whatever its age.
ResetRunning(ts, t) ==
    [i \in 1..Len(ts) |->
        IF ts[i].status = "running"
        THEN [ts[i] EXCEPT !.status = "queued",
                           !.statusReason = Some(StaleReason),
                           !.updatedAt = t]
        ELSE ts[i]]

\* ResetStale that leaves every task as it is.
ResetNothing(ts, t) == ts

\* The stale-run reset of initialize().
ResetStale(ts, t) ==
    [i \in 1..Len(ts) |->
        IF ts[i].status = "running" /\ ts[i].updatedAt < t - STALE_RUNNING_MS
        THEN [ts[i] EXCEPT !.status = "queued",
                           !.statusReason = Some(StaleReason),
                           !.updatedAt = t]
        ELSE ts[i]]

\* ------------------------------------------------------------ planning
\* An LLM response text is a sequence of tokens: "[" and "]", "," , "s" (a JSON
\* string literal) and "x" (any text that is not JSON).
Opens(text) == {i \in 1..Len(text) : text[i] = "["}
Closes(text) == {i \in 1..Len(text) : text[i] = "]"}
MinOf(S) == CHOOSE i \in S : \A j \in S : i <= j
MaxOf(S) == CHOOSE i \in S : \A j \in S : j <= i
Min(a, b) == IF a <= b THEN a ELSE b

\* text.match(/\[[\s\S]*\]/): from the first "[" to the last "]" after it, or NULL.
MatchArray(text) ==
    IF Opens(text) = {} \/ Closes(text) = {} THEN NULL
    ELSE IF MaxOf(Closes(text)) < MinOf(Opens(text)) THEN NULL
    ELSE Some(SubSeq(text, MinOf(Opens(text)), MaxOf(Closes(text))))

\* Whether JSON.parse accepts the matched text: "[" "]", or strings separated
\* by commas between the brackets (the texts of the model nest no arrays).
ParsesAsArray(m) ==
    LET inner == SubSeq(m, 2, Len(m) - 1) IN
    /\ Len(m) >= 2
    /\ m[1] = "[" /\ m[Len(m)] = "]"
    /\ \/ Len(inner) = 0
       \/ /\ Len(inner) % 2 = 1
          /\ \A k \in 1..Len(inner) :
                inner[k] = (IF k % 2 = 1 THEN "s" ELSE ",")

\* The array JSON.parse returns: the string elements, in order.
ParsedArray(m) ==
    LET inner == SubSeq(m, 2, Len(m) - 1) IN
    [k \in 1..((Len(inner) + 1) \div 2) |-> "s"]

\* The plan executeTask ends up with, for a planning completion that throws or
\* answers resp.text.
PlanFor(resp, goal) ==
    IF resp.throws THEN <<goal>>
    ELSE IF IsNull(MatchArray(resp.text)) THEN <<>>
    ELSE IF ParsesAsArray(Val(MatchArray(resp.text)))
         THEN ParsedArray(Val(MatchArray(resp.text)))
         ELSE <<goal>>

\* A response holding a JSON array of n step descriptions after some prose.
ArrayText(n) ==
    <<"x", "[">> \o [k \in 1..(2 * n - 1) |-> IF k % 2 = 1 THEN "s" ELSE ","] \o <<"]">>


PlanResponses ==
    {[throws |-> TRUE, text |-> <<>>],
     [throws |-> FALSE, text |-> <<"x">>],
     [throws |-> FALSE, text |-> <<"[", "x", "]">>],
     [throws |-> FALSE, text |-> ArrayText(MaxPlanLen)]}

EngineRecurrences == {NoRecurrence, Once, Every(POLL_INTERVAL_MS), Cron}

\* ------------------------------------------------------------ initial state
\* The state after construction, for the tasks, activations and inputs lim allows.
InitState(lim, healths) ==
    /\ now = StartTime
    /\ advances = 0
    /\ tasks = <<>>
    /\ taskRuns = <<>>
    /\ agentState = [a \in Agents |-> NULL]
    /\ running = FALSE
    /\ pollTimer = NULL
    /\ lastStatusAt = 0
    /\ execs = <<>>
    /\ episodic = <<>>
    /\ conns = [c \in {"c1", "c2"} |-> NULL]
    /\ calls = 0
    /\ lastClaim = NULL
    /\ limits = lim
    /\ keyHealth \in healths
    /\ dispatches = <<>>
    /\ lastCall = NULL
    /\ lastEmitAt = NULL

\* The runner and its store, with no router in the picture.
InitWith(lim) == InitState(lim, {<<>>})

\* Two tasks whose activations may overlap, with short plans.
Init ==
    InitWith([log |-> FALSE, oks |-> BOOLEAN, tasks |-> MaxTasks, runs |-> MaxRuns,
              kinds |-> {<<TRUE, Once>>, <<FALSE, Every(POLL_INTERVAL_MS)>>},
              plans |-> {r \in PlanResponses : Len(r.text) < 2}])

\* One task and one activation of it, with every outcome of every awaited call.
InitRun ==
    InitWith([log |-> FALSE, oks |-> BOOLEAN, tasks |-> 1, runs |-> 1, kinds |-> BOOLEAN \X EngineRecurrences,
              plans |-> PlanResponses])

\* One task and the activations that follow one another on it.
InitCycle ==
    InitWith([log |-> FALSE, oks |-> BOOLEAN, tasks |-> 1, runs |-> MaxRuns,
              kinds |-> {<<TRUE, Every(POLL_INTERVAL_MS)>>, <<FALSE, Once>>, <<FALSE, Cron>>},
              plans |-> PlanResponses])

\* ------------------------------------------------------------ the clock
\* The clock advances by one poll interval, or to just past the stale threshold.
ClockSteps == {POLL_INTERVAL_MS, STALE_RUNNING_MS + 1}

AdvanceClock(d) ==
    /\ advances < MaxAdvances
    /\ now' = now + d
    /\ advances' = advances + 1
    /\ UNCHANGED <<storeVars, runnerVars, conns, calls, lastClaim, limits, routerVars, lastCall, lastEmitAt>>

\* ------------------------------------------------------------ direct callers
\* The store's API driven by arbitrary callers of one process: every method is
\* synchronous (node:sqlite DatabaseSync), so a call is one step.
StoreEnqueueArgs ==
    {[agentId |-> "A", priority |-> DEFAULT_PRIORITY, recurrence |-> NoRecurrence, future |-> FALSE],
     [agentId |-> "A", priority |-> 1, recurrence |-> Every(POLL_INTERVAL_MS), future |-> FALSE],
     [agentId |-> "A", priority |-> 1, recurrence |-> Once, future |-> TRUE],
     [agentId |-> "B", priority |-> 1, recurrence |-> Cron, future |-> FALSE]}

\* The (status, reason) pairs callers pass to updateStatus.
StoreStatusArgs ==
    {<<"queued", NULL>>, <<"done", NULL>>, <<"paused", Some(Note)>>}

\* enqueue(agentId, payload, opts)
StoreEnqueue(arg) ==
    /\ Len(tasks) < MaxStoreTasks
    /\ tasks' = EnqueueRow(tasks, arg.agentId, FALSE, arg.priority, arg.recurrence,
                           IF arg.future THEN Some(now + POLL_INTERVAL_MS) ELSE NULL, now)
    /\ UNCHANGED <<now, advances, taskRuns, agentState, runnerVars, conns, calls,
                   lastClaim, limits, routerVars, lastCall, lastEmitAt>>

\* claimNext(agentId)
StoreClaimNext(agentId) ==
    /\ calls < MaxCalls
    /\ calls' = calls + 1
    /\ lastCall' = Some([op |-> "claimNext", id |-> 0, seq |-> calls'])
    /\ IF SelectNext(tasks, agentId, now) = {}
       THEN /\ lastClaim' = Some([agentId |-> agentId, task |-> NULL, seq |-> calls'])
            /\ tasks' = tasks
       ELSE \E id \in SelectNext(tasks, agentId, now) :
            /\ tasks' = MarkRunning(tasks, id, now)
            /\ lastClaim' = Some([agentId |-> agentId, task |-> Some(id), seq |-> calls'])
    /\ UNCHANGED <<now, advances, taskRuns, agentState, runnerVars, conns, limits, routerVars, lastEmitAt>>

StoreUpdateStatus(id, status, reason) ==
    /\ calls < MaxCalls
    /\ calls' = calls + 1
    /\ lastCall' = Some([op |-> "updateStatus", id |-> id, seq |-> calls'])
    /\ tasks' = UpdateStatus(tasks, id, status, reason, now)
    /\ UNCHANGED <<now, advances, taskRuns, agentState, runnerVars, conns, lastClaim, limits, routerVars, lastEmitAt>>

StoreRequeueRecurring(id) ==
    /\ calls < MaxCalls
    /\ calls' = calls + 1
    /\ lastCall' = Some([op |-> "requeueRecurring", id |-> id, seq |-> calls'])
    /\ tasks' = RequeueRecurring(tasks, id, tasks[id].recurrence, now)
    /\ UNCHANGED <<now, advances, taskRuns, agentState, runnerVars, conns, lastClaim, limits, routerVars, lastEmitAt>>

\* new TaskQueue(dbPath) on the existing database: initialize()
StoreInitialize ==
    /\ calls < MaxCalls
    /\ calls' = calls + 1
    /\ lastCall' = Some([op |-> "initialize", id |-> 0, seq |-> calls'])
    /\ tasks' = ResetStale(tasks, now)
    /\ UNCHANGED <<now, advances, taskRuns, agentState, runnerVars, conns, lastClaim, limits, routerVars, lastEmitAt>>

StoreNext ==
    \/ \E arg \in StoreEnqueueArgs : StoreEnqueue(arg)
    \/ \E a \in Agents : StoreClaimNext(a)
    \/ \E id \in TaskIds, sr \in StoreStatusArgs : StoreUpdateStatus(id, sr[1], sr[2])
    \/ \E id \in TaskIds : StoreRequeueRecurring(id)
    \/ StoreInitialize
    \/ \E d \in ClockSteps : AdvanceClock(d)

SpecStore == Init /\ [][StoreNext]_vars

\* ------------------------------------------------------------ the queue over time
\* The queue of the runner's agent as run after run goes by: a tick that
\* claims, and the final status a run writes (executeTask as one step).  No
\* activation is kept, so that a schedule may repeat for ever.
QueueEnqueueArgs ==
    {[agentId |-> "A", priority |-> DEFAULT_PRIORITY, recurrence |-> NoRecurrence, future |-> FALSE],
     [agentId |-> "A", priority |-> DEFAULT_PRIORITY, recurrence |-> Once, future |-> TRUE],
     [agentId |-> "A", priority |-> 1, recurrence |-> Every(POLL_INTERVAL_MS), future |-> FALSE],
     [agentId |-> "A", priority |-> 1, recurrence |-> Cron, future |-> FALSE]}

\* tick(): claimNext, with no run of the agent in progress.
TickClaims ==
    /\ \A id \in TaskIds : tasks[id].status # "running"
    /\ \E id \in SelectNext(tasks, RunnerAgent, now) :
          tasks' = MarkRunning(tasks, id, now)
    /\ UNCHANGED <<now, advances, taskRuns, agentState, runnerVars, conns, calls,
                   lastClaim, limits, routerVars, lastCall, lastEmitAt>>

\* The run of task id ends: paused, or on the success path.
RunEnds(id, paused) ==
    /\ tasks[id].status = "running"
    /\ tasks' = IF paused THEN UpdateStatus(tasks, id, "paused", Some(Note), now)
                ELSE IF tasks[id].recurrence.kind \notin {"absent", "once"}
                THEN RequeueRecurring(tasks, id, tasks[id].recurrence, now)
                ELSE UpdateStatus(tasks, id, "done", NULL, now)
    /\ UNCHANGED <<now, advances, taskRuns, agentState, runnerVars, conns, calls,
                   lastClaim, limits, routerVars, lastCall, lastEmitAt>>

QueueNext ==
    \/ \E arg \in QueueEnqueueArgs : StoreEnqueue(arg)
    \/ TickClaims
    \/ \E id \in TaskIds, paused \in BOOLEAN : RunEnds(id, paused)
    \/ \E d \in ClockSteps : AdvanceClock(d)

\* The runner keeps ticking and every run comes to an end.
SpecQueue ==
    /\ Init /\ [][QueueNext]_vars
    /\ WF_vars(TickClaims)
    /\ WF_vars(\E id \in TaskIds, paused \in BOOLEAN : RunEnds(id, paused))

\* ------------------------------------------------------------ two connections
\* Two TaskQueue objects on one database file (two processes of one agent), each
\* inside claimNext: its statements run one by one, in autocommit mode.
Conns == {"c1", "c2"}

\* const row = db.prepare(SELECT ... LIMIT 1).get(agentId, now)
ConnSelect(c, agentId) ==
    /\ IsNull(conns[c])
    /\ \E id \in SelectNext(tasks, agentId, now) :
          conns' = [conns EXCEPT ![c] =
                       Some([agentId |-> agentId, task |-> id, at |-> now,
                             returned |-> FALSE])]
    /\ UNCHANGED <<now, advances, storeVars, runnerVars, calls, lastClaim, limits, routerVars, lastCall, lastEmitAt>>

\* db.prepare(UPDATE ... WHERE id = ?).run(now, row.id); return rowToTask(...)
ConnUpdate(c) ==
    /\ ~IsNull(conns[c])
    /\ ~Val(conns[c]).returned
    /\ tasks' = MarkRunning(tasks, Val(conns[c]).task, Val(conns[c]).at)
    /\ conns' = [conns EXCEPT ![c] = Some([Val(conns[c]) EXCEPT !.returned = TRUE])]
    /\ UNCHANGED <<now, advances, taskRuns, agentState, runnerVars, calls, lastClaim,
                   limits, routerVars, lastCall, lastEmitAt>>

ConcNext ==
    \/ \E arg \in StoreEnqueueArgs : StoreEnqueue(arg)
    \/ \E c \in Conns, a \in Agents : ConnSelect(c, a)
    \/ \E c \in Conns : ConnUpdate(c)
    \/ \E d \in ClockSteps : AdvanceClock(d)

SpecConc == Init /\ [][ConcNext]_vars

\* ------------------------------------------------------------ AgentRunner
\* One activation of tick that claimed a task: the locals of executeTask and the
\* await it is suspended at (pc).
NewExec(id, pc, t) ==
    [pc |-> pc, taskId |-> id, resp |-> NULL, page |-> NULL, plan |-> <<>>, stepIdx |-> 0,
     consecutiveFailures |-> 0, taskFailed |-> FALSE, pauseReason |-> NULL,
     steps |-> <<>>, requested |-> 0, statusAt |-> t, final |-> NULL,
     stored |-> FALSE]

InFlight(e) == e.pc \notin {"done", "thrown", "crashed"}

\* The locals of an activation that has ended are garbage: the model drops them,
\* but for how it ended, when the next activation starts.
Ended(e) ==
    IF InFlight(e) THEN e
    ELSE [NewExec(e.taskId, e.pc, 0) EXCEPT !.final = e.final]

\* SaveAgentState that keeps the row an agent already has (INSERT OR IGNORE).
SaveAgentStateIfAbsent(as, a, currentTaskId, currentStepIndex) ==
    IF IsNull(as[a])
    THEN [as EXCEPT ![a] = Some([currentTaskId |-> currentTaskId,
                                 currentStepIndex |-> currentStepIndex])]
    ELSE as

\* saveAgentState({agentId, currentTaskId, lastHeartbeatAt, workingMemory})
SaveAgentState(as, a, currentTaskId, currentStepIndex) ==
    [as EXCEPT ![a] = Some([currentTaskId |-> currentTaskId,
                            currentStepIndex |-> currentStepIndex])]

\* What a resumed activation sees and writes: its locals and the store's tables.
\* The planning response, the observed page and the time of the status post it
\* awaited are out of scope by then.
World(i) == [e |-> [execs[i] EXCEPT !.resp = NULL, !.page = NULL, !.statusAt = 0],
             tasks |-> tasks, agentState |-> agentState, taskRuns |-> taskRuns]

Apply(i, w) ==
    /\ execs' = [execs EXCEPT ![i] = w.e]
    /\ tasks' = w.tasks
    /\ agentState' = w.agentState
    /\ taskRuns' = w.taskRuns

\* maybePostStatus / postStatus return without a call inside the rate limit.
RateLimited(t, last) == t - last < STATUS_UPDATE_INTERVAL_MS

\* Save run log, clear current task from agent state.
SaveAndClear(w, i) ==
    [w EXCEPT !.taskRuns = Append(@, [id |-> i, taskId |-> w.e.taskId, steps |-> w.e.steps]),
              !.agentState = SaveAgentState(@, RunnerAgent, NULL, NULL),
              !.e.pc = "done"]

\* FinalStatus that marks every run done that was neither paused nor failed.
FinalStatusAlwaysDone(w, t) ==
    LET id == w.e.taskId
    IN  IF ~IsNull(w.e.pauseReason)
        THEN [w EXCEPT !.tasks = UpdateStatus(@, id, "paused", w.e.pauseReason, t),
                       !.e.final = Some("paused"),
                       !.e.pc = "finalStatus", !.e.statusAt = t]
        ELSE IF w.e.taskFailed
        THEN [w EXCEPT !.tasks = UpdateStatus(@, id, "failed",
                                     Some(Reason("max consecutive failures", 0, <<>>)), t),
                       !.e.final = Some("failed"),
                       !.e.pc = "finalStatus", !.e.statusAt = t]
        ELSE [w EXCEPT !.tasks = UpdateStatus(@, id, "done", NULL, t),
                       !.e.final = Some("done"),
                       !.e.pc = "store"]

\* Determine final status: the code after the step loop, up to its next await.
FinalStatus(w, t) ==
    LET id == w.e.taskId
        rec == w.tasks[id].recurrence
    IN  IF ~IsNull(w.e.pauseReason)
        THEN [w EXCEPT !.tasks = UpdateStatus(@, id, "paused", w.e.pauseReason, t),
                       !.e.final = Some("paused"),
                       !.e.pc = "finalStatus", !.e.statusAt = t]
        ELSE IF w.e.taskFailed
        THEN [w EXCEPT !.tasks = UpdateStatus(@, id, "failed",
                                     Some(Reason("max consecutive failures", 0, <<>>)), t),
                       !.e.final = Some("failed"),
                       !.e.pc = "finalStatus", !.e.statusAt = t]
        ELSE IF rec.kind \notin {"absent", "once"}
        THEN [w EXCEPT !.tasks = RequeueRecurring(@, id, rec, t),
                       !.e.final = Some("queued"),
                       !.e.pc = "store"]
        ELSE [w EXCEPT !.tasks = UpdateStatus(@, id, "done", NULL, t),
                       !.e.final = Some("done"),
                       !.e.pc = "store"]

\* LoopHead without the cap on the steps of a run.
LoopHeadUncapped(w, t, isRunning) ==
    IF w.e.stepIdx < Len(w.e.plan) /\ isRunning
    THEN IF w.tasks[w.e.taskId].hasUrl
         THEN [w EXCEPT !.e.pc = "observe"]
         ELSE [w EXCEPT !.e.pc = "step", !.e.requested = @ + 1]
    ELSE FinalStatus(w, t)

\* The head of the step loop: its condition, the running check, and the start of
\* the step up to its first await.
LoopHead(w, t, isRunning) ==
    IF w.e.stepIdx < Min(Len(w.e.plan), MAX_STEPS_PER_RUN) /\ isRunning
    THEN IF w.tasks[w.e.taskId].hasUrl
         THEN [w EXCEPT !.e.pc = "observe"]
         ELSE [w EXCEPT !.e.pc = "step", !.e.requested = @ + 1]
    ELSE FinalStatus(w, t)

\* NextIteration that goes on with the step after the next.
NextIterationSkipping(w, t, isRunning) ==
    IF w.e.steps[Len(w.e.steps)] = "err"
       /\ w.e.consecutiveFailures >= MAX_CONSECUTIVE_FAILURES
    THEN FinalStatus(w, t)
    ELSE LoopHead([w EXCEPT !.e.stepIdx = @ + 2], t, isRunning)

\* The end of the loop body after the status update, and the next iteration.
NextIteration(w, t, isRunning) ==
    IF w.e.steps[Len(w.e.steps)] = "err"
       /\ w.e.consecutiveFailures >= MAX_CONSECUTIVE_FAILURES
    THEN FinalStatus(w, t)
    ELSE LoopHead([w EXCEPT !.e.stepIdx = @ + 1], t, isRunning)

\* run.steps.push, save state after the step, maybePostStatus.
RecordStep(w, result, t, last, isRunning) ==
    LET w1 == [w EXCEPT !.e.steps = Append(@, result),
                        !.agentState = SaveAgentState(@, RunnerAgent,
                                           Some(w.e.taskId), Some(w.e.stepIdx))]
    IN  IF RateLimited(t, last) THEN NextIteration(w1, t, isRunning)
        ELSE [w1 EXCEPT !.e.pc = "stepStatus", !.e.statusAt = t]

\* StepResult with a counter that a success leaves as it is.
StepResultKeepingCount(w, ok, t, last, isRunning) ==
    IF ok
    THEN RecordStep(w, "ok", t, last, isRunning)
    ELSE IF w.e.consecutiveFailures + 1 >= MAX_CONSECUTIVE_FAILURES
         THEN FinalStatus(
                [w EXCEPT !.e.consecutiveFailures = @ + 1,
                          !.e.pauseReason = Some(Reason("consecutive failures",
                                                  MAX_CONSECUTIVE_FAILURES, <<>>)),
                          !.e.taskFailed = TRUE], t)
         ELSE RecordStep([w EXCEPT !.e.consecutiveFailures = @ + 1], "err",
                         t, last, isRunning)

\* StepResult that ends the run at the first failed completion.
StepResultAbortingOnFailure(w, ok, t, last, isRunning) ==
    IF ok
    THEN RecordStep([w EXCEPT !.e.consecutiveFailures = 0], "ok", t, last, isRunning)
    ELSE FinalStatus(
           [w EXCEPT !.e.consecutiveFailures = @ + 1,
                     !.e.pauseReason = Some(Reason("consecutive failures",
                                             MAX_CONSECUTIVE_FAILURES, <<>>)),
                     !.e.taskFailed = TRUE], t)

\* The result of the step completion: try / catch of the loop body.
StepResult(w, ok, t, last, isRunning) ==
    IF ok
    THEN RecordStep([w EXCEPT !.e.consecutiveFailures = 0], "ok", t, last, isRunning)
    ELSE IF w.e.consecutiveFailures + 1 >= MAX_CONSECUTIVE_FAILURES
         THEN FinalStatus(
                [w EXCEPT !.e.consecutiveFailures = @ + 1,
                          !.e.pauseReason = Some(Reason("consecutive failures",
                                                  MAX_CONSECUTIVE_FAILURES, <<>>)),
                          !.e.taskFailed = TRUE], t)
         ELSE RecordStep([w EXCEPT !.e.consecutiveFailures = @ + 1], "err",
                         t, last, isRunning)

\* The alert types of an observation that block the run.
BlockingAlerts(alerts) == SelectSeq(alerts, LAMBDA a : a \in {"captcha", "2fa"})

\* PageResult that notes the blocking alerts and goes on with the step.
PageResultWithoutBreak(w, obs, t) ==
    IF ~obs.throws /\ Len(BlockingAlerts(obs.alerts)) > 0
    THEN [w EXCEPT !.e.pauseReason =
                       Some(Reason("Blocked by", 0, BlockingAlerts(obs.alerts))),
                   !.e.pc = "step", !.e.requested = @ + 1]
    ELSE [w EXCEPT !.e.pc = "step", !.e.requested = @ + 1]

\* PageResult that pauses the run when the observation fails.
PageResultPausingOnError(w, obs, t) ==
    IF obs.throws
    THEN FinalStatus([w EXCEPT !.e.pauseReason = Some(Reason("Blocked by", 0, <<>>))], t)
    ELSE IF Len(BlockingAlerts(obs.alerts)) > 0
    THEN FinalStatus(
           [w EXCEPT !.e.pauseReason =
                Some(Reason("Blocked by", 0, BlockingAlerts(obs.alerts)))], t)
    ELSE [w EXCEPT !.e.pc = "step", !.e.requested = @ + 1]

\* The result of getPageState: a page with alerts, or an error.
PageResult(w, obs, t) ==
    IF ~obs.throws /\ Len(BlockingAlerts(obs.alerts)) > 0
    THEN FinalStatus(
           [w EXCEPT !.e.pauseReason =
                Some(Reason("Blocked by", 0, BlockingAlerts(obs.alerts)))], t)
    ELSE [w EXCEPT !.e.pc = "step", !.e.requested = @ + 1]

Observations ==
    {[throws |-> TRUE, alerts |-> <<>>],
     [throws |-> FALSE, alerts |-> <<"info">>],
     [throws |-> FALSE, alerts |-> <<"captcha", "info", "2fa">>]}

\* tick(): claimNext and, with a task, executeTask up to its first await.
ClaimAndExecute(last) ==
    IF SelectNext(tasks, RunnerAgent, now) = {}
    THEN UNCHANGED <<tasks, agentState, execs>>
    ELSE \E id \in SelectNext(tasks, RunnerAgent, now) :
         /\ Len(execs) < limits.runs
         /\ tasks' = MarkRunning(tasks, id, now)
         /\ agentState' = SaveAgentState(agentState, RunnerAgent, Some(id), NULL)
         /\ execs' = Append([i \in 1..Len(execs) |-> Ended(execs[i])],
                IF RateLimited(now, last) THEN NewExec(id, "search", 0)
                ELSE NewExec(id, "startStatus", now))

\* start()
Start ==
    /\ ~running
    /\ running' = TRUE
    /\ pollTimer' = Some(now + POLL_INTERVAL_MS)
    /\ ClaimAndExecute(lastStatusAt)
    /\ UNCHANGED <<now, advances, taskRuns, lastStatusAt, episodic, conns,
                   calls, lastClaim, limits, routerVars, lastCall, lastEmitAt>>

\* stop()
Stop ==
    /\ running
    /\ running' = FALSE
    /\ pollTimer' = NULL
    /\ UNCHANGED <<now, advances, storeVars, lastStatusAt, execs, episodic,
                   conns, calls, lastClaim, limits, routerVars, lastCall, lastEmitAt>>

\* The interval fires: tick()
IntervalTick ==
    /\ running
    /\ ~IsNull(pollTimer) /\ Val(pollTimer) <= now
    /\ pollTimer' = Some(now + POLL_INTERVAL_MS)
    /\ ClaimAndExecute(lastStatusAt)
    /\ UNCHANGED <<now, advances, taskRuns, running, lastStatusAt, episodic,
                   conns, calls, lastClaim, limits, routerVars, lastCall, lastEmitAt>>

\* postStatus resolves: statusPing and activityFeed.append succeeded (ok), or
\* one of them failed and the error was swallowed.
StatusPosted(i, ok) ==
    /\ lastStatusAt' = IF ok THEN execs[i].statusAt ELSE lastStatusAt
    /\ lastEmitAt' = IF ok /\ limits.log THEN Some(now) ELSE lastEmitAt

\* await maybePostStatus("Starting task ...") resolves.
StartStatusDone(i, ok) ==
    /\ execs[i].pc = "startStatus"
    /\ StatusPosted(i, ok)
    /\ execs' = [execs EXCEPT ![i].pc = "search", ![i].statusAt = 0]
    /\ UNCHANGED <<now, advances, storeVars, running, pollTimer, episodic, conns,
                   calls, lastClaim, limits, routerVars, lastCall>>

\* await episodicMemory.search resolves or rejects.
SearchDone(i, ok) ==
    /\ execs[i].pc = "search"
    /\ execs' = [execs EXCEPT ![i].pc = IF ok THEN "plan" ELSE "thrown"]
    /\ UNCHANGED <<now, advances, storeVars, running, pollTimer, lastStatusAt,
                   episodic, conns, calls, lastClaim, limits, routerVars, lastCall, lastEmitAt>>

\* await router.complete (planning) resolves or rejects.
PlanDone(i, resp) ==
    /\ execs[i].pc = "plan"
    /\ Apply(i, LoopHead([World(i) EXCEPT
                             !.e.resp = Some(resp),
                             !.e.plan = PlanFor(resp, tasks[execs[i].taskId].goal)],
                         now, running))
    /\ UNCHANGED <<now, advances, running, pollTimer, lastStatusAt, episodic,
                   conns, calls, lastClaim, limits, routerVars, lastCall, lastEmitAt>>

\* await getPageState resolves or rejects.
ObserveDone(i, obs) ==
    /\ execs[i].pc = "observe"
    /\ Apply(i, PageResult([World(i) EXCEPT !.e.page = Some(obs)], obs, now))
    /\ UNCHANGED <<now, advances, running, pollTimer, lastStatusAt, episodic,
                   conns, calls, lastClaim, limits, routerVars, lastCall, lastEmitAt>>

\* await router.complete (step) resolves or rejects.
StepDone(i, ok) ==
    /\ execs[i].pc = "step"
    /\ Apply(i, StepResult(World(i), ok, now, lastStatusAt, running))
    /\ UNCHANGED <<now, advances, running, pollTimer, lastStatusAt, episodic,
                   conns, calls, lastClaim, limits, routerVars, lastCall, lastEmitAt>>

\* await maybePostStatus("Step ...") resolves.
StepStatusDone(i, ok) ==
    /\ execs[i].pc = "stepStatus"
    /\ StatusPosted(i, ok)
    /\ Apply(i, NextIteration(World(i), now, running))
    /\ UNCHANGED <<now, advances, running, pollTimer, episodic, conns, calls,
                   lastClaim, limits, routerVars, lastCall>>

\* await postStatus("Paused ..." / "Task failed ...", force) resolves.
FinalStatusDone(i, ok) ==
    /\ execs[i].pc = "finalStatus"
    /\ StatusPosted(i, ok)
    /\ Apply(i, SaveAndClear(World(i), i))
    /\ UNCHANGED <<now, advances, running, pollTimer, episodic, conns, calls,
                   lastClaim, limits, routerVars, lastCall>>

\* await episodicMemory.store resolves or rejects.
StoreDone(i, ok) ==
    /\ execs[i].pc = "store"
    /\ IF ok
       THEN /\ episodic' = Append(episodic,
                   [taskId |-> execs[i].taskId, steps |-> Len(execs[i].steps)])
            /\ execs' = [execs EXCEPT ![i].pc = "doneStatus", ![i].statusAt = now,
                                      ![i].stored = TRUE, ![i].resp = NULL,
                                      ![i].page = NULL]
       ELSE /\ episodic' = episodic
            /\ execs' = [execs EXCEPT ![i].pc = "thrown", ![i].resp = NULL,
                                      ![i].page = NULL]
    /\ UNCHANGED <<now, advances, storeVars, running, pollTimer, lastStatusAt,
                   conns, calls, lastClaim, limits, routerVars, lastCall, lastEmitAt>>

\* await postStatus("Done ...", force) resolves.
DoneStatusDone(i, ok) ==
    /\ execs[i].pc = "doneStatus"
    /\ StatusPosted(i, ok)
    /\ Apply(i, SaveAndClear(World(i), i))
    /\ UNCHANGED <<now, advances, running, pollTimer, episodic, conns, calls,
                   lastClaim, limits, routerVars, lastCall>>

\* ------------------------------------------------------------ environment
\* A caller enqueues a task for the runner's agent.
Enqueue(hasUrl, recurrence) ==
    /\ Len(tasks) < limits.tasks
    /\ tasks' = EnqueueRow(tasks, RunnerAgent, hasUrl, DEFAULT_PRIORITY, recurrence,
                           NULL, now)
    /\ UNCHANGED <<now, advances, taskRuns, agentState, runnerVars, conns, calls,
                   lastClaim, limits, routerVars, lastCall, lastEmitAt>>

\* Something outside the engine re-queues a paused or failed task.
ExternalRequeue(id) ==
    /\ tasks[id].status \in {"paused", "failed"}
    /\ tasks' = UpdateStatus(tasks, id, "queued", NULL, now)
    /\ UNCHANGED <<now, advances, taskRuns, agentState, runnerVars, conns, calls,
                   lastClaim, limits, routerVars, lastCall, lastEmitAt>>

\* The process dies and is started again: every activation is lost with the
\* runner's memory, and the new TaskQueue runs initialize().
Restart ==
    /\ \E i \in 1..Len(execs) : InFlight(execs[i])
    /\ execs' = [i \in 1..Len(execs) |->
                    IF InFlight(execs[i])
                    THEN [NewExec(execs[i].taskId, "crashed", 0) EXCEPT
                              !.final = execs[i].final]
                    ELSE execs[i]]
    /\ running' = FALSE
    /\ pollTimer' = NULL
    /\ lastStatusAt' = 0
    /\ tasks' = ResetStale(tasks, now)
    /\ UNCHANGED <<now, advances, taskRuns, agentState, episodic, conns,
                   calls, lastClaim, limits, routerVars, lastCall, lastEmitAt>>

\* Another process opens the agent's queue file while this one lives (the file
\* path depends on the agent only): its new TaskQueue runs initialize().
QueueOpened ==
    /\ tasks' = ResetStale(tasks, now)
    /\ tasks' # tasks
    /\ UNCHANGED <<now, advances, taskRuns, agentState, runnerVars, conns,
                   calls, lastClaim, limits, routerVars, lastCall, lastEmitAt>>

Next ==
    \/ \E k \in limits.kinds : Enqueue(k[1], k[2])
    \/ \E d \in ClockSteps : AdvanceClock(d)
    \/ Start
    \/ Stop
    \/ IntervalTick
    \/ \E i \in 1..Len(execs), ok \in BOOLEAN : StartStatusDone(i, ok)
    \/ \E i \in 1..Len(execs), ok \in BOOLEAN : SearchDone(i, ok)
    \/ \E i \in 1..Len(execs), resp \in limits.plans : PlanDone(i, resp)
    \/ \E i \in 1..Len(execs), obs \in Observations : ObserveDone(i, obs)
    \/ \E i \in 1..Len(execs), ok \in limits.oks : StepDone(i, ok)
    \/ \E i \in 1..Len(execs), ok \in BOOLEAN : StepStatusDone(i, ok)
    \/ \E i \in 1..Len(execs), ok \in BOOLEAN : FinalStatusDone(i, ok)
    \/ \E i \in 1..Len(execs), ok \in BOOLEAN : StoreDone(i, ok)
    \/ \E i \in 1..Len(execs), ok \in BOOLEAN : DoneStatusDone(i, ok)
    \/ \E id \in TaskIds : ExternalRequeue(id)
    \/ Restart
    \/ QueueOpened

Spec == Init /\ [][Next]_vars

SpecRun == InitRun /\ [][Next]_vars

SpecCycle == InitCycle /\ [][Next]_vars

\* How the promise of the tick that started activation e stands: executeTask
\* returning and the catch block of tick both let it resolve.
TickOutcome(e) ==
    IF InFlight(e) THEN "pending"
    ELSE IF e.pc = "crashed" THEN "lost"
    ELSE "resolved"

\* The step's completion has settled and the store write that follows it
\* (saveAgentState, or updateStatus at the failure threshold) throws: nothing
\* is written and the error reaches the catch block of tick.
StepSaveFails(i) ==
    /\ execs[i].pc = "step"
    /\ execs' = [execs EXCEPT ![i].pc = "thrown", ![i].resp = NULL, ![i].page = NULL]
    /\ UNCHANGED <<now, advances, storeVars, running, pollTimer, lastStatusAt,
                   episodic, conns, calls, lastClaim, limits, routerVars, lastCall,
                   lastEmitAt>>

\* The final notification has settled and saveTaskRun throws.
RunSaveFails(i, ok) ==
    /\ execs[i].pc \in {"finalStatus", "doneStatus"}
    /\ StatusPosted(i, ok)
    /\ execs' = [execs EXCEPT ![i].pc = "thrown", ![i].resp = NULL, ![i].page = NULL,
                              ![i].statusAt = 0]
    /\ UNCHANGED <<now, advances, storeVars, running, pollTimer, episodic, conns,
                   calls, lastClaim, limits, routerVars, lastCall>>

\* The runner on a database whose writes may fail.
NextDb ==
    \/ Next
    \/ \E i \in 1..Len(execs) : StepSaveFails(i)
    \/ \E i \in 1..Len(execs), ok \in BOOLEAN : RunSaveFails(i, ok)

SpecDb == InitRun /\ [][NextDb]_vars

\* Two url tasks whose activations may overlap, with the times at which the
\* activity feed took a message.
InitNotify ==
    InitWith([log |-> TRUE, oks |-> BOOLEAN, tasks |-> MaxTasks, runs |-> MaxRuns,
              kinds |-> {<<TRUE, Once>>},
              plans |-> {r \in PlanResponses : r.throws}])

SpecNotify == InitNotify /\ [][Next]_vars

\* A planning response with one step more than a run may execute.
LongPlan == [throws |-> FALSE, text |-> ArrayText(MAX_STEPS_PER_RUN + 1)]

\* One task and one activation of it, with a plan longer than the cap on the
\* steps of a run and step completions that all answer.
InitLong ==
    InitWith([log |-> FALSE, oks |-> {TRUE}, tasks |-> 1, runs |-> 1,
              kinds |-> {<<TRUE, Once>>, <<FALSE, Every(POLL_INTERVAL_MS)>>},
              plans |-> {LongPlan}])

\* An awaited call of an activation returns.
Returns ==
    \E i \in 1..Len(execs) :
        \/ \E ok \in BOOLEAN : StartStatusDone(i, ok)
        \/ \E ok \in BOOLEAN : SearchDone(i, ok)
        \/ \E resp \in limits.plans : PlanDone(i, resp)
        \/ \E obs \in Observations : ObserveDone(i, obs)
        \/ \E ok \in limits.oks : StepDone(i, ok)
        \/ \E ok \in BOOLEAN : StepStatusDone(i, ok)
        \/ \E ok \in BOOLEAN : FinalStatusDone(i, ok)
        \/ \E ok \in BOOLEAN : StoreDone(i, ok)
        \/ \E ok \in BOOLEAN : DoneStatusDone(i, ok)

\* Every awaited call returns in the end.
SpecLong == InitLong /\ [][Next]_vars /\ WF_vars(Returns)

\* ------------------------------------------------------------ LLMRouter
Providers == {"openai", "anthropic", "deepseek"}

\* The providers whose client implements embed().
HasEmbed(provider) == provider = "openai"

\* parseKeys(env): the entries of the comma-separated list, trimmed, without
\* the empty ones.  An entry is modelled already trimmed.
ParseKeys(env) == SelectSeq(env, LAMBDA k : k # "")

\* The constructor's keyHealth: the keys of openai, anthropic, deepseek in turn.
LoadKeys(env) ==
    LET entries(provider) ==
            [i \in 1..Len(ParseKeys(env[provider])) |->
                [provider |-> provider, key |-> ParseKeys(env[provider])[i],
                 cooldownUntil |-> NULL, disabled |-> FALSE, lastError |-> NULL]]
    IN  entries("openai") \o entries("anthropic") \o entries("deepseek")

\* this.providerOrder without OPENCLAW_LLM_PRIORITY
DefaultOrder == <<"openai", "anthropic", "deepseek">>

\* Environments: one key for each of two providers; two keys for each (one list
\* with an empty entry); four keys for the one provider that embeds.
EnvOneEach == [openai |-> <<"kA">>, anthropic |-> <<"kB">>, deepseek |-> <<>>]
EnvTwoEach == [openai |-> <<"k1", "", "k2">>, anthropic |-> <<"k3", "k4">>, deepseek |-> <<>>]
EnvFour == [openai |-> <<"k1", "k2", "k3", "k4">>, anthropic |-> <<>>, deepseek |-> <<>>]

\* Errors a provider client throws: the HTTP status it attached (0: none) and
\* the words of its message.
Err(status, message) == [status |-> status, message |-> message]
ErrRateLimit == Err(429, <<"rate", "limit">>)
ErrRateLimitQuota == Err(429, <<"Quota", "exceeded">>)
ErrPayment == Err(402, <<"payment", "required">>)
ErrForbidden == Err(403, <<"forbidden">>)
ErrServer == Err(500, <<"server", "error">>)
ErrCredits == Err(0, <<"out", "of", "credits">>)
Errors == {ErrRateLimit, ErrRateLimitQuota, ErrPayment, ErrForbidden, ErrServer, ErrCredits}

\* String.toLowerCase on a word of a message.
Lower(word) == IF word = "Quota" THEN "quota" ELSE word

\* isRateLimit(err)
IsRateLimit(err) == err.status = 429

\* isInsufficientCredits(err)
IsInsufficientCredits(err) ==
    \/ err.status = 402 \/ err.status = 403
    \/ \E i \in 1..Len(err.message) :
          Lower(err.message[i]) \in {"insufficient", "credits", "quota"}

\* HealthyKeysFor that returns the healthy keys last to first.
HealthyKeysReversed(kh, provider, t) ==
    LET healthy == SelectSeq(kh, LAMBDA k :
                       /\ k.provider = provider
                       /\ ~k.disabled
                       /\ (IsNull(k.cooldownUntil) \/ Val(k.cooldownUntil) <= t))
    IN  [i \in 1..Len(healthy) |-> healthy[Len(healthy) + 1 - i].key]

\* HealthyKeysFor that never takes back a key that was put in cooldown.
HealthyKeysNeverCooled(kh, provider, t) ==
    LET healthy == SelectSeq(kh, LAMBDA k :
                       /\ k.provider = provider
                       /\ ~k.disabled
                       /\ IsNull(k.cooldownUntil))
    IN  [i \in 1..Len(healthy) |-> healthy[i].key]

\* healthyKeysFor(provider) at time t
HealthyKeysFor(kh, provider, t) ==
    LET healthy == SelectSeq(kh, LAMBDA k :
                       /\ k.provider = provider
                       /\ ~k.disabled
                       /\ (IsNull(k.cooldownUntil) \/ Val(k.cooldownUntil) <= t))
    IN  [i \in 1..Len(healthy) |-> healthy[i].key]

\* keyHealth.find(k => k.provider === provider && k.key === key): its index, or 0
FindEntry(kh, provider, key) ==
    LET found == {i \in 1..Len(kh) : kh[i].provider = provider /\ kh[i].key = key}
    IN  IF found = {} THEN 0 ELSE MinOf(found)

\* MarkRateLimit that notes the error and sets no cooldown.
MarkRateLimitWithoutCooldown(kh, provider, key, t) ==
    LET i == FindEntry(kh, provider, key) IN
    IF i = 0 THEN kh
    ELSE [kh EXCEPT ![i].lastError = Some(<<"rate-limited">>)]

\* markRateLimit(provider, key) at time t
MarkRateLimit(kh, provider, key, t) ==
    LET i == FindEntry(kh, provider, key) IN
    IF i = 0 THEN kh
    ELSE [kh EXCEPT ![i].cooldownUntil = Some(t + RATE_LIMIT_COOLDOWN_MS),
                    ![i].lastError = Some(<<"rate-limited">>)]

\* markDisabled(provider, key, reason)
MarkDisabled(kh, provider, key, reason) ==
    LET i == FindEntry(kh, provider, key) IN
    IF i = 0 THEN kh
    ELSE [kh EXCEPT ![i].disabled = TRUE, ![i].lastError = Some(reason)]

\* OnError that puts every key in cooldown on a rate-limit error.
OnErrorCoolingAll(kh, provider, key, err, t) ==
    IF IsInsufficientCredits(err) THEN MarkDisabled(kh, provider, key, err.message)
    ELSE IF IsRateLimit(err)
    THEN [i \in 1..Len(kh) |->
             [kh[i] EXCEPT !.cooldownUntil = Some(t + RATE_LIMIT_COOLDOWN_MS),
                           !.lastError = Some(<<"rate-limited">>)]]
    ELSE kh

\* The catch block of an attempt.
OnError(kh, provider, key, err, t) ==
    IF IsInsufficientCredits(err) THEN MarkDisabled(kh, provider, key, err.message)
    ELSE IF IsRateLimit(err) THEN MarkRateLimit(kh, provider, key, t)
    ELSE kh

\* One activation of complete() or embed(): its locals and whether it awaits
\* an attempt (pc "attempt"), has returned a response or has thrown.
NewDispatch(op, capability) ==
    [op |-> op, capability |-> capability, pIdx |-> 0, keys |-> <<>>, kIdx |-> 0,
     attempts |-> 0, lastError |-> NULL, pc |-> "start", tried |-> <<>>,
     result |-> NULL]

\* throw new Error(`LLMRouter: ... Last error: ${lastError.message ?? lastError}`)
Exhausted(d) ==
    [d EXCEPT !.pc = "failed",
              !.result = Some([attempts |-> IF d.op = "complete" THEN Some(d.attempts)
                                            ELSE NULL,
                               last |-> IF IsNull(d.lastError) THEN <<"undefined">>
                                        ELSE Val(d.lastError).message])]

RECURSIVE EnterProvider(_, _, _, _)
RECURSIVE KeyLoop(_, _, _)
\* The provider loop from its p-th iteration on, up to the next await or throw.
EnterProvider(d, p, kh, t) ==
    IF p > Len(limits.order) \/ d.attempts >= MAX_RETRIES
    THEN Exhausted([d EXCEPT !.pIdx = p, !.keys = <<>>, !.kIdx = 0])
    ELSE IF \/ d.op = "complete" /\ d.capability = "embeddings"
            \/ limits.order[p] \notin Providers
            \/ d.op = "embed" /\ ~HasEmbed(limits.order[p])
    THEN EnterProvider(d, p + 1, kh, t)
    ELSE KeyLoop([d EXCEPT !.pIdx = p, !.kIdx = 0,
                           !.keys = HealthyKeysFor(kh, limits.order[p], t)], kh, t)

\* KeyLoop without the attempt budget.
KeyLoopUnbounded(d, kh, t) ==
    IF d.kIdx >= Len(d.keys)
    THEN EnterProvider(d, d.pIdx + 1, kh, t)
    ELSE [d EXCEPT !.kIdx = @ + 1, !.attempts = @ + 1, !.pc = "attempt",
                   !.tried = Append(@, [provider |-> limits.order[d.pIdx],
                                        key |-> d.keys[d.kIdx + 1],
                                        err |-> NULL])]

\* The key loop of the current provider from the key after kIdx on.
KeyLoop(d, kh, t) ==
    IF d.kIdx >= Len(d.keys) \/ d.attempts >= MAX_RETRIES
    THEN EnterProvider(d, d.pIdx + 1, kh, t)
    ELSE [d EXCEPT !.kIdx = @ + 1, !.attempts = @ + 1, !.pc = "attempt",
                   !.tried = Append(@, [provider |-> limits.order[d.pIdx],
                                        key |-> d.keys[d.kIdx + 1],
                                        err |-> NULL])]

Pending(d) == d.pc = "attempt"

\* complete(request) or embed(request) is called: up to its first attempt.
Dispatch(op, capability) ==
    /\ Len(dispatches) < limits.dispatches
    /\ Cardinality({c \in 1..Len(dispatches) : Pending(dispatches[c])}) < limits.concurrent
    /\ dispatches' = Append(dispatches,
                            EnterProvider(NewDispatch(op, capability), 1, keyHealth, now))
    /\ UNCHANGED <<now, advances, storeVars, runnerVars, conns, calls, lastClaim,
                   limits, keyHealth, lastCall, lastEmitAt>>

\* await client.complete / client.embed settles: a response (outcome NULL) or an
\* error, after which the loops go on.
AttemptDone(c, outcome) ==
    /\ Pending(dispatches[c])
    /\ LET d == dispatches[c]
           cur == d.tried[Len(d.tried)]
       IN  IF IsNull(outcome)
           THEN /\ dispatches' = [dispatches EXCEPT ![c] =
                       [d EXCEPT !.pc = "returned",
                                 !.result = Some([provider |-> cur.provider,
                                                  key |-> cur.key])]]
                /\ keyHealth' = keyHealth
           ELSE LET err == Val(outcome)
                    kh == OnError(keyHealth, cur.provider, cur.key, err, now)
                IN  /\ keyHealth' = kh
                    /\ dispatches' = [dispatches EXCEPT ![c] =
                          KeyLoop([d EXCEPT !.lastError = Some(err),
                                            !.tried[Len(d.tried)].err = Some(err)],
                                  kh, now)]
    /\ UNCHANGED <<now, advances, storeVars, runnerVars, conns, calls, lastClaim,
                   limits, lastCall, lastEmitAt>>

\* The calls made on the router: chat completions, a completion asked for
\* embeddings, and embed().
Requests == {<<"complete", "reasoning">>, <<"complete", "embeddings">>,
             <<"embed", "embeddings">>}

RouterNext ==
    \/ \E r \in limits.requests : Dispatch(r[1], r[2])
    \/ \E c \in 1..Len(dispatches), outcome \in limits.outcomes : AttemptDone(c, outcome)
    \/ \E d \in ClockSteps : AdvanceClock(d)

RouterLimits(n, concurrent, requests, outcomes) ==
    [log |-> FALSE, tasks |-> 0, runs |-> 0, kinds |-> {}, plans |-> {},
     order |-> DefaultOrder, dispatches |-> n, concurrent |-> concurrent,
     requests |-> requests, outcomes |-> outcomes]

\* Dispatches one after the other, with every kind of answer.
InitRouter ==
    InitState(RouterLimits(MaxDispatches, 1, Requests,
                           {NULL} \cup {Some(e) : e \in Errors}),
              {LoadKeys(EnvOneEach), LoadKeys(EnvTwoEach), LoadKeys(EnvFour)})

SpecRouter == InitRouter /\ [][RouterNext]_vars

\* Two completions in flight at once.
InitRouterConc ==
    InitState(RouterLimits(MaxDispatches, MaxDispatches, {<<"complete", "reasoning">>},
                           {NULL, Some(ErrRateLimit), Some(ErrPayment), Some(ErrServer)}),
              {LoadKeys(EnvTwoEach)})

SpecRouterConc == InitRouterConc /\ [][RouterNext]_vars

\* process.env as the constructor finds it: for each provider the singular
\* variable (..._API_KEY, "" when unset) and the entries of the plural,
\* comma-separated one (..._API_KEYS).
EnvSingularAndPlural ==
    [single |-> [openai |-> "oa-single", anthropic |-> "an-single",
                 deepseek |-> "ds-single"],
     plural |-> [openai |-> <<"oa-a", "oa-b">>, anthropic |-> <<>>, deepseek |-> <<>>]]
EnvPluralOnly ==
    [single |-> [openai |-> "", anthropic |-> "", deepseek |-> ""],
     plural |-> EnvTwoEach]
EnvSingularOnly ==
    [single |-> [openai |-> "oa-single", anthropic |-> "", deepseek |-> ""],
     plural |-> [openai |-> <<>>, anthropic |-> <<>>, deepseek |-> <<>>]]
Environments == {EnvSingularAndPlural, EnvPluralOnly, EnvSingularOnly}

\* new LLMRouter() under env: the constructor reads the plural variables.
NewRouter(env) == LoadKeys(env.plural)

\* healthSummary() at time t: a row for each provider that has an entry.
HealthSummary(kh, t) ==
    [p \in {kh[i].provider : i \in 1..Len(kh)} |->
        [healthy |-> Cardinality({i \in 1..Len(kh) :
                        /\ kh[i].provider = p
                        /\ ~kh[i].disabled
                        /\ (IsNull(kh[i].cooldownUntil) \/ Val(kh[i].cooldownUntil) <= t)}),
         total |-> Cardinality({i \in 1..Len(kh) : kh[i].provider = p})]]

\* A router built under one of the environments, and completions on it.
InitRouterEnv ==
    \E env \in Environments :
        InitState([log |-> FALSE, tasks |-> 0, runs |-> 0, kinds |-> {}, plans |-> {},
                   order |-> DefaultOrder, dispatches |-> MaxDispatches,
                   concurrent |-> 1, requests |-> {<<"complete", "reasoning">>},
                   outcomes |-> {NULL, Some(ErrRateLimit), Some(ErrPayment)},
                   env |-> env],
                  {NewRouter(env)})

SpecRouterEnv == InitRouterEnv /\ [][RouterNext]_vars

\* OPENCLAW_LLM_PRIORITY as the constructor finds it: unset, or its
\* comma-separated entries, trimmed; no entry is checked or dropped.
PriorityEnvs ==
    {NULL, Some(<<"anthropic", "openai">>), Some(<<"openai", "openai", "deepseek">>),
     Some(<<"mistral", "deepseek">>)}

\* this.providerOrder
ProviderOrder(priorityEnv) ==
    IF IsNull(priorityEnv) THEN DefaultOrder ELSE Val(priorityEnv)

\* A router built under one of the priority lists, and calls on it.
InitRouterOrder ==
    \E priorityEnv \in PriorityEnvs :
        InitState([RouterLimits(MaxDispatches, 1, Requests,
                                {NULL, Some(ErrRateLimit), Some(ErrServer)})
                      EXCEPT !.order = ProviderOrder(priorityEnv)],
                  {LoadKeys(EnvOneEach), LoadKeys(EnvTwoEach)})

SpecRouterOrder == InitRouterOrder /\ [][RouterNext]_vars

\* ------------------------------------------------------------ properties
ExecIds == 1..Len(execs)

\* C1: while an activation of tick is still executing its task, no interval tick
\* of the runner claims and starts another task (a step of a running runner that
\* adds an activation is an interval tick: start() needs a stopped runner).
C1_NoClaimWhileExecuting ==
    [][(running /\ Len(execs') > Len(execs))
          => \A i \in ExecIds : ~InFlight(execs[i])]_vars

\* C2: no task is returned as claimed to two callers of claimNext.
C2_NoDoubleClaim ==
    \A c \in Conns, d \in Conns :
        (/\ c # d
         /\ ~IsNull(conns[c]) /\ Val(conns[c]).returned
         /\ ~IsNull(conns[d]) /\ Val(conns[d]).returned)
        => Val(conns[c]).task # Val(conns[d]).task

\* A step in which a direct claimNext call returned.
ClaimReturned == lastClaim' # lastClaim
ClaimedTask == Val(Val(lastClaim').task)
ClaimedFor == Val(lastClaim').agentId
ClaimedSome == ~IsNull(Val(lastClaim').task)

\* C3: claimNext(agentId) returns only a task of that agent that was stored as
\* queued with next_run_at unset or not later than the current time, and the
\* task is stored as running afterwards.
C3_ClaimOnlyEligible ==
    [][(ClaimReturned /\ ClaimedSome) =>
          /\ ClaimedTask \in TaskIds
          /\ tasks[ClaimedTask].agentId = ClaimedFor
          /\ tasks[ClaimedTask].status = "queued"
          /\ \/ IsNull(tasks[ClaimedTask].nextRunAt)
             \/ Val(tasks[ClaimedTask].nextRunAt) <= now
          /\ tasks'[ClaimedTask].status = "running"]_vars

\* A claim returned a task whose next_run_at had passed while another task of
\* the agent, scheduled for later, stayed queued.
C3_Witness ==
    /\ ~IsNull(lastClaim) /\ ~IsNull(Val(lastClaim).task)
    /\ LET id == Val(Val(lastClaim).task) IN
       /\ tasks[id].status = "running"
       /\ ~IsNull(tasks[id].nextRunAt)
       /\ \E j \in TaskIds :
            /\ tasks[j].agentId = tasks[id].agentId
            /\ tasks[j].status = "queued"
            /\ ~IsNull(tasks[j].nextRunAt) /\ Val(tasks[j].nextRunAt) > now

\* The tasks claimNext(agentId) may choose from at time t, as the interface
\* describes them.
Claimable(agentId, t) ==
    {j \in TaskIds :
        /\ tasks[j].agentId = agentId
        /\ tasks[j].status = "queued"
        /\ (IsNull(tasks[j].nextRunAt) \/ Val(tasks[j].nextRunAt) <= t)}

\* C4: claimNext returns an eligible task with the lowest priority value and,
\* among those, the earliest creation time; it returns none only when no task
\* is eligible.
C4_ClaimLowestPriorityThenOldest ==
    [][ClaimReturned =>
          IF ClaimedSome
          THEN \A j \in Claimable(ClaimedFor, now) :
                  \/ tasks[ClaimedTask].priority < tasks[j].priority
                  \/ /\ tasks[ClaimedTask].priority = tasks[j].priority
                     /\ tasks[ClaimedTask].createdAt <= tasks[j].createdAt
          ELSE Claimable(ClaimedFor, now) = {}]_vars

\* A claim returned the older of two eligible tasks of equal priority, and the
\* younger one is still queued.
C4_Witness ==
    /\ ~IsNull(lastClaim) /\ ~IsNull(Val(lastClaim).task)
    /\ LET id == Val(Val(lastClaim).task) IN
       /\ tasks[id].status = "running"
       /\ \E j \in Claimable(tasks[id].agentId, now) :
            /\ tasks[j].priority = tasks[id].priority
            /\ tasks[j].createdAt > tasks[id].createdAt
            /\ tasks[j].createdAt <= tasks[id].updatedAt

\* C10: whatever the outcome of an execution (also an error thrown by a
\* collaborator), its TaskRun is saved, and once no execution is in flight the
\* agent's state holds no current task.
C10_RunSavedAndStateCleared ==
    \A i \in ExecIds :
        execs[i].pc \in {"done", "thrown"} =>
            /\ \E k \in 1..Len(taskRuns) : taskRuns[k].id = i
            /\ (\A j \in ExecIds : execs[j].pc \in {"done", "thrown"})
                  => /\ ~IsNull(agentState[RunnerAgent])
                     /\ IsNull(Val(agentState[RunnerAgent]).currentTaskId)

\* C5: every change of a task's status follows the state machine: a new task is
\* queued; queued becomes running only, by a claim that starts an execution of
\* it; running becomes done, failed or paused, or queued again by the requeue
\* of a recurring task or the stale-run reset; done stays; a paused or failed
\* task changes only when something outside the engine re-queues it.
C5_StatusStateMachine ==
    [][/\ \A id \in 1..Len(tasks') : id \notin TaskIds => tasks'[id].status = "queued"
       /\ \A id \in TaskIds :
            tasks'[id].status # tasks[id].status =>
               CASE tasks[id].status = "queued" ->
                      /\ tasks'[id].status = "running"
                      /\ Len(execs') = Len(execs) + 1
                      /\ execs'[Len(execs')].taskId = id
                 [] tasks[id].status = "running" ->
                      \/ tasks'[id].status \in {"done", "failed", "paused"}
                      \/ /\ tasks'[id].status = "queued"
                         /\ \/ tasks[id].recurrence.kind \in {"every", "cron"}
                            \/ tasks'[id].statusReason = Some(StaleReason)
                 [] tasks[id].status \in {"paused", "failed"} -> ExternalRequeue(id)
                 [] OTHER -> FALSE]_vars

\* C6: when the consecutive-failure counter of a run reaches 3, the task is
\* stored as failed with a reason that cites 3 consecutive failures.
C6_ThreeFailuresEndFailed ==
    [][\A i \in ExecIds :
          (/\ execs[i].consecutiveFailures < MAX_CONSECUTIVE_FAILURES
           /\ execs'[i].consecutiveFailures >= MAX_CONSECUTIVE_FAILURES)
          => /\ tasks'[execs[i].taskId].status = "failed"
             /\ ~IsNull(tasks'[execs[i].taskId].statusReason)
             /\ Val(tasks'[execs[i].taskId].statusReason).count
                   = MAX_CONSECUTIVE_FAILURES]_vars

\* An observation that reports a captcha or 2fa alert.
Blocking(obs) ==
    ~obs.throws /\ \E k \in 1..Len(obs.alerts) : obs.alerts[k] \in {"captcha", "2fa"}

BlockedRun(e) == ~IsNull(e.pauseReason) /\ Val(e.pauseReason).text = "Blocked by"

\* C7: when the page observed before a step reports a captcha or 2fa alert, the
\* run stops at once: the task is stored as paused with a reason that lists
\* the blocking alert types, no step completion is requested and no step is
\* appended, then or later, and the run is saved with the steps it had.
C7_BlockingAlertPauses ==
    [][\A i \in ExecIds :
          /\ (/\ execs[i].pc = "observe"
              /\ ~IsNull(execs'[i].page) /\ Blocking(Val(execs'[i].page)))
             => /\ execs'[i].pc = "finalStatus"
                /\ execs'[i].steps = execs[i].steps
                /\ execs'[i].requested = execs[i].requested
                /\ tasks'[execs[i].taskId].status = "paused"
                /\ tasks'[execs[i].taskId].statusReason =
                      Some(Reason("Blocked by", 0,
                                  SelectSeq(Val(execs'[i].page).alerts,
                                            LAMBDA a : a = "captcha" \/ a = "2fa")))
          /\ (BlockedRun(execs[i]) /\ execs'[i].pc # "crashed")
             => /\ execs'[i].steps = execs[i].steps
                /\ execs'[i].requested = execs[i].requested
                /\ execs'[i].pc = "done" =>
                      \E k \in 1..Len(taskRuns') :
                         /\ taskRuns'[k].id = i
                         /\ taskRuns'[k].steps = execs[i].steps]_vars

\* A run blocked before its second step has ended: one step recorded, one
\* completion requested, the task paused.
C7_Witness ==
    \E i \in ExecIds :
        /\ execs[i].pc = "done"
        /\ BlockedRun(execs[i])
        /\ Val(execs[i].pauseReason).types = <<"captcha", "2fa">>
        /\ Len(execs[i].steps) = 1
        /\ execs[i].requested = 1
        /\ Len(execs[i].plan) = MaxPlanLen
        /\ tasks[execs[i].taskId].status = "paused"

RECURSIVE TrailingErrors(_)
\* How many of the last recorded steps failed in a row.
TrailingErrors(steps) ==
    IF Len(steps) = 0 \/ steps[Len(steps)] # "err" THEN 0
    ELSE 1 + TrailingErrors(SubSeq(steps, 1, Len(steps) - 1))

\* C8: the consecutive-failure counter counts the failures since the last
\* success; a run stops for failures only when three in a row failed; and a
\* run of a three-step plan of a once task whose steps fail, fail and succeed
\* records 3 steps, leaves the task done and stores one episodic summary.
C8_SuccessResetsCounter ==
    \A i \in ExecIds :
        LET e == execs[i] IN
        /\ e.consecutiveFailures =
               TrailingErrors(e.steps) + (IF e.taskFailed THEN 1 ELSE 0)
        /\ (e.taskFailed \/ e.final = Some("failed")
              \/ (~IsNull(e.pauseReason) /\ ~BlockedRun(e)))
           => TrailingErrors(e.steps) = MAX_CONSECUTIVE_FAILURES - 1
        /\ (/\ e.pc = "done"
            /\ e.steps = <<"err", "err", "ok">>
            /\ Len(e.plan) = 3
            /\ tasks[e.taskId].recurrence.kind \in {"absent", "once"})
           => /\ e.final = Some("done")
              /\ tasks[e.taskId].status = "done"
              /\ \E k \in 1..Len(taskRuns) :
                    taskRuns[k].id = i /\ Len(taskRuns[k].steps) = 3
              /\ Cardinality({k \in 1..Len(episodic) :
                                 episodic[k].taskId = e.taskId}) = 1
              /\ \A k \in 1..Len(episodic) : episodic[k].steps = 3

\* The run of a once task has ended after its steps failed, failed and succeeded.
C8_Witness ==
    \E i \in ExecIds :
        /\ execs[i].pc = "done"
        /\ execs[i].steps = <<"err", "err", "ok">>
        /\ execs[i].consecutiveFailures = 0
        /\ tasks[execs[i].taskId].recurrence = Once
        /\ tasks[execs[i].taskId].status = "done"
        /\ Len(episodic) = 1

\* A response text that holds a JSON array of step descriptions somewhere.
HoldsArray(text) ==
    \E a \in 1..Len(text), b \in 1..Len(text) :
        /\ a < b
        /\ text[a] = "[" /\ text[b] = "]"
        /\ \A k \in (a + 1)..(b - 1) :
              text[k] = (IF (k - a) % 2 = 1 THEN "s" ELSE ",")
        /\ (b - a) % 2 = 0 \/ b = a + 1

\* C9: when the planning completion fails or its response holds no parseable
\* JSON array of step descriptions, the plan of the run is exactly [goal].
C9_PlanFallsBackToGoal ==
    \A i \in ExecIds :
        (/\ ~IsNull(execs[i].resp)
         /\ \/ Val(execs[i].resp).throws
            \/ ~HoldsArray(Val(execs[i].resp).text))
        => execs[i].plan = <<tasks[execs[i].taskId].goal>>

\* C11: a failure of the memory collaborator does not end a run: after a search
\* that throws the run goes on to plan, and after a store that throws it goes on
\* to its final notification, run log and state clearing.
C11_MemoryFailureNotFatal ==
    [][\A i \in ExecIds :
          /\ (execs[i].pc = "search" /\ execs'[i].pc \notin {"search", "crashed"})
             => execs'[i].pc = "plan"
          /\ (execs[i].pc = "store" /\ execs'[i].pc \notin {"store", "crashed"})
             => execs'[i].pc = "doneStatus"]_vars

\* A step in which a direct caller's store call of kind op returned.
Called(op) == lastCall' # lastCall /\ Val(lastCall').op = op

\* C12: initialize sets every running task last updated more than the stale
\* threshold ago to queued with the stale-reset reason and leaves every other
\* task as it is; afterwards no task is left for a second scan to reset.
C12_StaleResetOnce ==
    [][Called("initialize") =>
          /\ Len(tasks') = Len(tasks)
          /\ \A id \in TaskIds :
                IF /\ tasks[id].status = "running"
                   /\ now - tasks[id].updatedAt > STALE_RUNNING_MS
                THEN tasks'[id] = [tasks[id] EXCEPT !.status = "queued",
                                                    !.statusReason = Some(StaleReason),
                                                    !.updatedAt = tasks'[id].updatedAt]
                ELSE tasks'[id] = tasks[id]
          /\ \A id \in TaskIds :
                ~(/\ tasks'[id].status = "running"
                  /\ now - tasks'[id].updatedAt > STALE_RUNNING_MS)]_vars

\* A startup scan has reset a stale running task and left a queued one alone.
C12_Witness ==
    /\ ~IsNull(lastCall) /\ Val(lastCall).op = "initialize"
    /\ \E id \in TaskIds, other \in TaskIds :
          /\ tasks[id].status = "queued"
          /\ tasks[id].statusReason = Some(StaleReason)
          /\ tasks[id].updatedAt = now
          /\ tasks[id].createdAt < now - STALE_RUNNING_MS
          /\ other # id
          /\ tasks[other].status = "queued"
          /\ IsNull(tasks[other].statusReason)

\* C13: requeueRecurring on a task whose recurrence is once or absent changes
\* no task.
C13_RequeueOnceIsNoOp ==
    [][\A id \in TaskIds :
          (/\ Called("requeueRecurring") /\ Val(lastCall').id = id
           /\ tasks[id].recurrence.kind \in {"absent", "once"})
          => tasks' = tasks]_vars

\* requeueRecurring was called on a paused once task, which is still paused.
C13_Witness ==
    /\ ~IsNull(lastCall) /\ Val(lastCall).op = "requeueRecurring"
    /\ Val(lastCall).id \in TaskIds
    /\ tasks[Val(lastCall).id].recurrence = Once
    /\ tasks[Val(lastCall).id].status = "paused"
    /\ tasks[Val(lastCall).id].statusReason = Some(Note)

\* C14: requeueRecurring on an every(intervalMs) task stores it as queued with
\* next_run_at the current time plus intervalMs and no status reason, which
\* leaves it not claimable at that time; a later claim returns it only once
\* next_run_at has come.
C14_RequeueEverySchedulesNextRun ==
    [][\A id \in TaskIds :
          tasks[id].recurrence.kind = "every" =>
             /\ (Called("requeueRecurring") /\ Val(lastCall').id = id)
                => /\ tasks'[id].status = "queued"
                   /\ tasks'[id].nextRunAt = Some(now + tasks[id].recurrence.intervalMs)
                   /\ IsNull(tasks'[id].statusReason)
                   /\ Val(tasks'[id].nextRunAt) > now
                   /\ \A other \in TaskIds : other # id => tasks'[other] = tasks[other]
             /\ (/\ ClaimReturned /\ ClaimedSome /\ ClaimedTask = id
                 /\ ~IsNull(tasks[id].nextRunAt))
                => Val(tasks[id].nextRunAt) <= now]_vars

\* After a requeue of an every task, a claim for its agent returned nothing
\* while the task was queued, waiting for its next run.
C14_Witness ==
    /\ ~IsNull(lastCall) /\ Val(lastCall).op = "claimNext"
    /\ ~IsNull(lastClaim) /\ IsNull(Val(lastClaim).task)
    /\ \E id \in TaskIds :
          /\ tasks[id].agentId = Val(lastClaim).agentId
          /\ tasks[id].recurrence.kind = "every"
          /\ tasks[id].status = "queued"
          /\ tasks[id].nextRunAt = Some(tasks[id].updatedAt + tasks[id].recurrence.intervalMs)
          /\ Val(tasks[id].nextRunAt) > now

DispatchIds == 1..Len(dispatches)

\* The keyHealth entry of a tried credential.
EntryOf(kh, cred) == kh[FindEntry(kh, cred.provider, cred.key)]

\* An error that is a rate-limit error and nothing else: status 429 and a
\* message without the words of a credit error.
RateLimitOnly(err) ==
    /\ err.status = 429
    /\ \A i \in 1..Len(err.message) :
          Lower(err.message[i]) \notin {"insufficient", "credits", "quota"}

\* Dispatch c is a chat completion that fails in this step, every attempt it
\* made having been answered with a rate-limit error.
FailsRateLimited(c) ==
    /\ dispatches[c].pc = "attempt"
    /\ dispatches'[c].pc = "failed"
    /\ dispatches'[c].op = "complete"
    /\ \A k \in 1..Len(dispatches'[c].tried) :
          /\ ~IsNull(dispatches'[c].tried[k].err)
          /\ RateLimitOnly(Val(dispatches'[c].tried[k].err))

\* Every credential the failing dispatch c tried is left in cooldown and not
\* disabled, the last one for the full window from now.
TriedInCooldown(c) ==
    LET d == dispatches'[c] IN
    /\ \A k \in 1..Len(d.tried) :
          /\ ~IsNull(EntryOf(keyHealth', d.tried[k]).cooldownUntil)
          /\ ~EntryOf(keyHealth', d.tried[k]).disabled
          /\ EntryOf(keyHealth', d.tried[k]).lastError = Some(<<"rate-limited">>)
    /\ EntryOf(keyHealth', d.tried[Len(d.tried)]).cooldownUntil
          = Some(now + RATE_LIMIT_COOLDOWN_MS)

C16_DisabledNeverUsed ==
    [][/\ \A i \in 1..Len(keyHealth) :
             keyHealth[i].disabled =>
                /\ keyHealth'[i].disabled
                /\ \A k \in 1..Len(HealthyKeysFor(keyHealth, keyHealth[i].provider, now)) :
                      HealthyKeysFor(keyHealth, keyHealth[i].provider, now)[k]
                         # keyHealth[i].key
       /\ \A c \in 1..Len(dispatches') :
             LET before == IF c \in DispatchIds THEN Len(dispatches[c].tried) ELSE 0
                 d == dispatches'[c]
             IN  Len(d.tried) > before
                    => ~EntryOf(keyHealth', d.tried[Len(d.tried)]).disabled]_vars

\* Where the router keeps the health of keyA and of keyB.
KeyA == FindEntry(keyHealth, "openai", "kA")
KeyB == FindEntry(keyHealth, "anthropic", "kB")

Healthy(entry, t) ==
    ~entry.disabled /\ (IsNull(entry.cooldownUntil) \/ Val(entry.cooldownUntil) <= t)

\* Dispatch c is a completion in flight, with openai(keyA) and anthropic(keyB)
\* configured, whose first attempt went to keyA.
StartedWithKeyA(c) ==
    /\ Len(keyHealth) = 2 /\ KeyA # 0 /\ KeyB # 0
    /\ dispatches[c].op = "complete"
    /\ dispatches[c].pc = "attempt"
    /\ dispatches[c].tried[1].provider = "openai"
    /\ dispatches[c].tried[1].key = "kA"

C18_ErrorClassification ==
    [][\A c \in DispatchIds :
          LET d == dispatches[c]
              e == dispatches'[c]
              cur == d.tried[Len(d.tried)]
              i == FindEntry(keyHealth, cur.provider, cur.key)
              err == Val(e.tried[Len(d.tried)].err)
          IN  (/\ d.pc = "attempt"
               /\ ~IsNull(e.tried[Len(d.tried)].err))
              => /\ \A j \in 1..Len(keyHealth) : j # i => keyHealth'[j] = keyHealth[j]
                 /\ err.status = 429
                       => keyHealth'[i].cooldownUntil
                             = Some(now + RATE_LIMIT_COOLDOWN_MS)
                 /\ (\/ err.status \in {402, 403}
                     \/ \E k \in 1..Len(err.message) :
                           Lower(err.message[k]) \in {"insufficient", "credits", "quota"})
                       => keyHealth'[i].disabled
                 /\ (/\ err.status \notin {429, 402, 403}
                     /\ \A k \in 1..Len(err.message) :
                           Lower(err.message[k]) \notin {"insufficient", "credits", "quota"})
                       => keyHealth' = keyHealth
                 /\ e.pc \in {"attempt", "failed"}]_vars

C20_NotificationsRateLimited ==
    [][\A i \in ExecIds :
          (StartStatusDone(i, TRUE) \/ StepStatusDone(i, TRUE))
          => \/ IsNull(lastEmitAt)
             \/ now - Val(lastEmitAt) >= STATUS_UPDATE_INTERVAL_MS]_vars

\* C21: when stop() returns, no activation of tick is still in flight: every
\* task this runner claimed has left status running, and its run is saved and
\* the agent's current task cleared.
C21_StopWaitsForInFlightTick ==
    [][Stop =>
          \A i \in ExecIds :
             /\ ~InFlight(execs'[i])
             /\ tasks'[execs'[i].taskId].status # "running"
             /\ execs'[i].pc = "done" =>
                   /\ \E r \in 1..Len(taskRuns') : taskRuns'[r].id = i
                   /\ ~IsNull(execs'[i].final)]_vars

\* The keys process.env holds for a provider in its singular and its plural
\* variable together.
KeysInEnv(env, p) ==
    Len(ParseKeys(env.plural[p])) + (IF env.single[p] = "" THEN 0 ELSE 1)

\* C22: healthSummary reports, for every provider with a key in its singular
\* or its plural environment variable, a total equal to the number of keys in
\* both variables together.
C22_SingularAndPluralKeysLoaded ==
    \A p \in Providers :
        KeysInEnv(limits.env, p) > 0 =>
            /\ p \in DOMAIN HealthSummary(keyHealth, now)
            /\ HealthSummary(keyHealth, now)[p].total = KeysInEnv(limits.env, p)

\* A step in which a task store is initialized on the agent's database: by the
\* restarted process, or by another process opening the file.
Initializes == Restart \/ QueueOpened

\* The tasks left running by an activation that died with its process.
Orphaned == {execs[i].taskId : i \in {j \in ExecIds : execs[j].pc = "crashed"}}

SuccessfulRuns(id) ==
    {j \in ExecIds : /\ execs[j].taskId = id
                     /\ execs[j].pc = "done"
                     /\ execs[j].final \in {Some("queued"), Some("done")}}

\* C24: a task with recurrence cron gets no next-run timestamp when its run
\* completes, and after its first successful run the runner starts no further
\* activation for it.
C24_CronRunsOnce ==
    [][\A id \in TaskIds :
          (tasks[id].recurrence.kind = "cron" /\ SuccessfulRuns(id) # {})
          => /\ IsNull(tasks[id].nextRunAt)
             /\ \A i \in 1..Len(execs') :
                   i > Len(execs) => execs'[i].taskId # id]_vars

\* The words of a message that isInsufficientCredits looks for.
CreditWords(err) ==
    \E k \in 1..Len(err.message) :
        Lower(err.message[k]) \in {"insufficient", "credits", "quota"}

\* C25: the error of a failed attempt is classified by its status code when it
\* carries one, and by its message only when it carries none: status 429 puts
\* the credential in cooldown and never disables it, whatever the message; a
\* status other than 402 and 403 never disables; without a status the message
\* decides.
C25_StatusCodeBeforeMessage ==
    [][\A c \in DispatchIds :
          LET d == dispatches[c]
              e == dispatches'[c]
              cur == d.tried[Len(d.tried)]
              i == FindEntry(keyHealth, cur.provider, cur.key)
              err == Val(e.tried[Len(d.tried)].err)
          IN  (/\ d.pc = "attempt"
               /\ ~IsNull(e.tried[Len(d.tried)].err))
              => /\ err.status = 429 =>
                       /\ keyHealth'[i].cooldownUntil = Some(now + RATE_LIMIT_COOLDOWN_MS)
                       /\ keyHealth'[i].disabled = keyHealth[i].disabled
                 /\ (err.status # 0 /\ err.status \notin {402, 403}) =>
                       keyHealth'[i].disabled = keyHealth[i].disabled
                 /\ err.status \in {402, 403} => keyHealth'[i].disabled
                 /\ err.status = 0 =>
                       (keyHealth'[i].disabled <=> (keyHealth[i].disabled \/ CreditWords(err)))]_vars

\* The keys of a snapshot are in the order in which the router loaded them.
InConfiguredOrder(kh, provider, keys) ==
    \A a \in 1..Len(keys), b \in 1..Len(keys) :
        a < b => /\ FindEntry(kh, provider, keys[a]) # 0
                 /\ FindEntry(kh, provider, keys[a]) < FindEntry(kh, provider, keys[b])

\* C26: within one complete() call the attempts go provider by provider in
\* priority order, a provider being passed over only when it has no healthy
\* credential, and within a provider through its healthy credentials in
\* configured order; the first attempt that succeeds is returned at once, with
\* no further attempt and no change of health state.
C26_DeterministicDispatchOrder ==
    [][\A c \in 1..Len(dispatches') :
          LET e == dispatches'[c]
              isNew == c \notin DispatchIds
              before == IF isNew THEN 0 ELSE Len(dispatches[c].tried)
              pBefore == IF isNew THEN 0 ELSE dispatches[c].pIdx
          IN  e.op = "complete" /\ e.capability = "reasoning" =>
              /\ Len(e.tried) > before =>
                    /\ Len(e.tried) = before + 1
                    /\ e.tried[Len(e.tried)].provider = limits.order[e.pIdx]
                    /\ e.tried[Len(e.tried)].key = e.keys[e.kIdx]
                    /\ InConfiguredOrder(keyHealth', limits.order[e.pIdx], e.keys)
                    /\ IF e.pIdx = pBefore
                       THEN /\ e.keys = dispatches[c].keys
                            /\ e.kIdx = dispatches[c].kIdx + 1
                       ELSE /\ e.pIdx > pBefore
                            /\ e.keys = HealthyKeysFor(keyHealth', limits.order[e.pIdx], now)
                            /\ e.kIdx = 1
                            /\ \A q \in (pBefore + 1)..(e.pIdx - 1) :
                                  HealthyKeysFor(keyHealth', limits.order[q], now) = <<>>
                            /\ ~isNew => dispatches[c].kIdx = Len(dispatches[c].keys)
              /\ (~isNew /\ dispatches[c].pc = "attempt" /\ e.pc = "returned") =>
                    /\ e.tried = dispatches[c].tried
                    /\ e.attempts = dispatches[c].attempts
                    /\ e.result = Some([provider |-> e.tried[Len(e.tried)].provider,
                                        key |-> e.tried[Len(e.tried)].key])
                    /\ keyHealth' = keyHealth
              /\ (~isNew /\ dispatches[c].pc = "returned") => e = dispatches[c]]_vars

\* complete() has returned the answer of the second openai key after the first
\* one failed, with the anthropic keys never tried and no health state changed.
C26_Witness ==
    \E c \in DispatchIds :
        /\ dispatches[c].op = "complete"
        /\ dispatches[c].pc = "returned"
        /\ dispatches[c].tried = <<[provider |-> "openai", key |-> "k1",
                                    err |-> Some(ErrServer)],
                                   [provider |-> "openai", key |-> "k2", err |-> NULL]>>
        /\ dispatches[c].result = Some([provider |-> "openai", key |-> "k2"])
        /\ keyHealth = LoadKeys(EnvTwoEach)

\* The positions in keyHealth of a provider's credentials that are not
\* disabled and in no running cooldown at time t.
HealthyEntries(kh, provider, t) ==
    {i \in 1..Len(kh) :
        /\ kh[i].provider = provider
        /\ ~kh[i].disabled
        /\ (IsNull(kh[i].cooldownUntil) \/ Val(kh[i].cooldownUntil) <= t)}

\* C27: healthyKeysFor(provider) returns each credential of the provider that
\* is not disabled and whose cooldown is unset or has expired, once, and no
\* other key, in configured order: a credential in cooldown is left out before
\* its cooldown-until time and returned from that time on.
C27_HealthyKeysExact ==
    \A p \in Providers :
        LET keys == HealthyKeysFor(keyHealth, p, now) IN
        /\ Len(keys) = Cardinality(HealthyEntries(keyHealth, p, now))
        /\ \A i \in HealthyEntries(keyHealth, p, now) :
              \E k \in 1..Len(keys) : keys[k] = keyHealth[i].key
        /\ InConfiguredOrder(keyHealth, p, keys)
        /\ \A i \in 1..Len(keyHealth) :
              (keyHealth[i].provider = p /\ ~IsNull(keyHealth[i].cooldownUntil)) =>
                 ((\E k \in 1..Len(keys) : keys[k] = keyHealth[i].key)
                     <=> (~keyHealth[i].disabled /\ Val(keyHealth[i].cooldownUntil) <= now))

\* A credential whose cooldown has expired is returned again, next to one that
\* is still left out because it is disabled.
C27_Witness ==
    \E i \in 1..Len(keyHealth), j \in 1..Len(keyHealth) :
        /\ keyHealth[i].provider = keyHealth[j].provider
        /\ ~keyHealth[i].disabled
        /\ ~IsNull(keyHealth[i].cooldownUntil)
        /\ Val(keyHealth[i].cooldownUntil) <= now
        /\ keyHealth[j].disabled
        /\ \E k \in 1..Len(HealthyKeysFor(keyHealth, keyHealth[i].provider, now)) :
              HealthyKeysFor(keyHealth, keyHealth[i].provider, now)[k] = keyHealth[i].key
        /\ \A k \in 1..Len(HealthyKeysFor(keyHealth, keyHealth[j].provider, now)) :
              HealthyKeysFor(keyHealth, keyHealth[j].provider, now)[k] # keyHealth[j].key

\* The positions in the priority order of the providers that support
\* embeddings and have a healthy credential at time t.
EmbeddingProviders(kh, t) ==
    {q \in 1..Len(limits.order) :
        /\ HasEmbed(limits.order[q])
        /\ HealthyKeysFor(kh, limits.order[q], t) # <<>>}

\* C28: a request for embeddings passes over the providers without embeddings,
\* which costs no attempt, and over no other: when a provider that supports
\* embeddings has a healthy credential, the first attempt goes to the first
\* healthy credential of the first such provider, and its answer is returned.
C28_OnlyIncapableProvidersSkipped ==
    [][\A c \in 1..Len(dispatches') :
          LET e == dispatches'[c] IN
          e.capability = "embeddings" =>
             /\ (c \notin DispatchIds /\ EmbeddingProviders(keyHealth, now) # {}) =>
                   /\ e.pc = "attempt"
                   /\ e.attempts = 1
                   /\ e.tried[1].provider
                         = limits.order[MinOf(EmbeddingProviders(keyHealth, now))]
                   /\ e.tried[1].key
                         = HealthyKeysFor(keyHealth, e.tried[1].provider, now)[1]
             /\ \A k \in 1..Len(e.tried) : HasEmbed(e.tried[k].provider)
             /\ e.attempts = Len(e.tried)]_vars

\* C29: every step whose completion fails, the one that brings the count of
\* consecutive failures to the threshold included, is appended to the run with
\* its error as result, and the working memory with that step's index is saved.
C29_FailedStepRecorded ==
    [][\A i \in ExecIds :
          StepDone(i, FALSE) =>
             /\ execs'[i].steps = Append(execs[i].steps, "err")
             /\ agentState'[RunnerAgent]
                   = Some([currentTaskId |-> Some(execs[i].taskId),
                           currentStepIndex |-> Some(execs[i].stepIdx)])]_vars

\* Activation i leaves the step loop in this step and sets the final status.
LeavesLoop(i) ==
    /\ execs[i].pc \in {"plan", "observe", "step", "stepStatus"}
    /\ execs'[i].pc \in {"store", "finalStatus"}

Recurring(id) == tasks[id].recurrence.kind \notin {"absent", "once"}

\* C30: a run that ends without pause and without the failure threshold
\* requeues its task through the store when the task recurs, and marks it done
\* when its recurrence is once or absent; it then hands one summary of the run
\* to the memory collaborator.  A run that ends paused or failed sets that
\* status, requeues nothing and stores no summary.  A recurring task is never
\* marked done.
C30_CompletionRequeuesOrMarksDone ==
    [][/\ \A id \in 1..Len(tasks') :
             tasks'[id].recurrence.kind \notin {"absent", "once"}
                => tasks'[id].status # "done"
       /\ \A i \in ExecIds :
             LET id == execs[i].taskId
                 e == execs'[i]
             IN  /\ LeavesLoop(i) =>
                       IF IsNull(e.pauseReason) /\ ~e.taskFailed
                       THEN /\ e.pc = "store"
                            /\ tasks' = IF Recurring(id)
                                        THEN RequeueRecurring(tasks, id, tasks[id].recurrence, now)
                                        ELSE UpdateStatus(tasks, id, "done", NULL, now)
                            /\ tasks'[id].status = (IF Recurring(id) THEN "queued" ELSE "done")
                       ELSE /\ e.pc = "finalStatus"
                            /\ tasks'[id].status \in {"paused", "failed"}
                            /\ tasks'[id].nextRunAt = tasks[id].nextRunAt
                 /\ StoreDone(i, TRUE) =>
                       episodic' = Append(episodic, [taskId |-> id,
                                                     steps |-> Len(execs[i].steps)])
                 /\ execs[i].pc # "store" => episodic' = episodic
                 /\ (execs[i].pc = "finalStatus" /\ e.pc = "done") =>
                       /\ ~e.stored
                       /\ e.final \in {Some("paused"), Some("failed")}]_vars

\* A task recurring at an interval has completed a run of three steps: it is
\* queued for its next run and the run's summary is in the memory.
C30_Witness ==
    \E i \in ExecIds :
        /\ execs[i].pc = "done"
        /\ execs[i].final = Some("queued")
        /\ tasks[execs[i].taskId].recurrence.kind = "every"
        /\ tasks[execs[i].taskId].status = "queued"
        /\ ~IsNull(tasks[execs[i].taskId].nextRunAt)
        /\ episodic = <<[taskId |-> execs[i].taskId, steps |-> MaxPlanLen]>>

\* C31: a run requests at most 20 step completions and records at most 20
\* steps, in the activation and in the saved TaskRun, whatever the length of
\* the plan; and a run whose awaited calls all return comes to an end.
C31_AtMostTwentySteps ==
    /\ [](/\ \A i \in ExecIds :
                /\ execs[i].requested <= MAX_STEPS_PER_RUN
                /\ Len(execs[i].steps) <= MAX_STEPS_PER_RUN
          /\ \A r \in 1..Len(taskRuns) : Len(taskRuns[r].steps) <= MAX_STEPS_PER_RUN)
    /\ (Len(execs) > 0) ~> (Len(execs) > 0 /\ ~InFlight(execs[1]))

\* A run on a plan of 21 steps has ended after 20 steps, all recorded and saved.
C31_Witness ==
    \E i \in ExecIds :
        /\ execs[i].pc = "done"
        /\ Len(execs[i].plan) = MAX_STEPS_PER_RUN + 1
        /\ execs[i].requested = MAX_STEPS_PER_RUN
        /\ \E r \in 1..Len(taskRuns) :
              taskRuns[r].id = i /\ Len(taskRuns[r].steps) = MAX_STEPS_PER_RUN

\* C32: the steps of a run are executed one after the other by plan index: the
\* step recorded as the n-th one has index n - 1 (so the indexes are 0, 1, 2,
\* ... with no gap and no duplicate), and a step's completion is requested
\* only when every step requested before has resolved and been recorded, for
\* the index after the last recorded one, so that at most one is pending.
C32_StepsSequentialByIndex ==
    [][\A i \in ExecIds :
          LET d == execs[i]
              e == execs'[i]
          IN  InFlight(d) =>
              /\ Len(e.steps) > Len(d.steps) =>
                    /\ Len(e.steps) = Len(d.steps) + 1
                    /\ d.pc = "step"
                    /\ d.stepIdx = Len(d.steps)
                    /\ agentState'[RunnerAgent]
                          = Some([currentTaskId |-> Some(d.taskId),
                                  currentStepIndex |-> Some(Len(d.steps))])
              /\ e.requested > d.requested =>
                    /\ e.requested = d.requested + 1
                    /\ e.pc = "step"
                    /\ d.requested = Len(e.steps)
                    /\ e.stepIdx = Len(e.steps)
              /\ e.requested <= Len(e.steps) + 1
              /\ InFlight(e) => e.stepIdx >= d.stepIdx]_vars

\* A run has executed the three steps of its plan in turn, the second one
\* failing, and saved them in that order.
C32_Witness ==
    \E i \in ExecIds :
        /\ execs[i].pc = "done"
        /\ execs[i].requested = MaxPlanLen
        /\ execs[i].steps = <<"ok", "err", "ok">>
        /\ \E r \in 1..Len(taskRuns) :
              taskRuns[r].id = i /\ taskRuns[r].steps = <<"ok", "err", "ok">>

\* C33: a run that leaves the step loop changes the status of its task once,
\* to done, failed, paused, or queued by requeue, and then attempts one forced
\* final notification, whatever the time since the last notification; whether
\* the notification succeeds or fails, the task keeps that status and the run
\* goes on to save itself.
C33_OneFinalStatusAndNotification ==
    [][\A i \in ExecIds :
          LET d == execs[i]
              e == execs'[i]
              id == d.taskId
          IN  (InFlight(d) /\ e.pc # "crashed") =>
              /\ LeavesLoop(i) =>
                    /\ tasks'[id].status \in {"done", "failed", "paused", "queued"}
                    /\ e.final = Some(tasks'[id].status)
                    /\ \A other \in TaskIds : other # id => tasks'[other] = tasks[other]
              /\ (d.pc = "store" /\ e.pc # "store") =>
                    /\ e.pc = "doneStatus"
                    /\ tasks' = tasks
              /\ (d.pc \in {"finalStatus", "doneStatus"} /\ e.pc # d.pc) =>
                    /\ e.pc = "done"
                    /\ tasks' = tasks
                    /\ \E r \in 1..Len(taskRuns') : taskRuns'[r].id = i
              /\ e.pc \in {"finalStatus", "doneStatus"} => ~IsNull(e.final)]_vars

\* A store operation throws inside activation i in this step.
PersistenceError(i) ==
    StepSaveFails(i) \/ RunSaveFails(i, TRUE) \/ RunSaveFails(i, FALSE)

\* C34: when a store operation throws during a tick, the error reaches the
\* caller of the engine: the tick's promise is rejected, not resolved.
C34_PersistenceErrorPropagates ==
    [][\A i \in ExecIds :
          PersistenceError(i) => TickOutcome(execs'[i]) = "rejected"]_vars

\* Where activation e stands when the loop goes on after the step with index
\* idx: at the next step of the plan, or, with no step left or the runner
\* stopped, past the loop on the success path.
GoesOn(e, idx, hasUrl, isRunning) ==
    IF idx + 1 < Min(Len(e.plan), MAX_STEPS_PER_RUN) /\ isRunning
    THEN /\ e.stepIdx = idx + 1
         /\ e.pc = (IF hasUrl THEN "observe" ELSE "step")
    ELSE e.pc = "store"

\* C35: a step completion that fails while fewer than 2 failures precede it in
\* a row counts as one more consecutive failure and is recorded; the run is
\* neither paused nor failed by it and goes on, after the status update, with
\* the next step of the plan.
C35_StepFailureCountsNotAborts ==
    [][\A i \in ExecIds :
          LET d == execs[i]
              e == execs'[i]
              hasUrl == tasks[d.taskId].hasUrl
          IN  /\ (StepDone(i, FALSE)
                  /\ d.consecutiveFailures + 1 < MAX_CONSECUTIVE_FAILURES) =>
                    /\ e.consecutiveFailures = d.consecutiveFailures + 1
                    /\ e.steps = Append(d.steps, "err")
                    /\ IsNull(e.pauseReason) /\ ~e.taskFailed
                    /\ tasks'[d.taskId].status \notin {"paused", "failed"}
                    /\ \/ e.pc = "stepStatus" /\ e.stepIdx = d.stepIdx
                       \/ GoesOn(e, d.stepIdx, hasUrl, running)
              /\ (d.pc = "stepStatus" /\ e.pc \notin {"stepStatus", "crashed"}
                  /\ d.steps[Len(d.steps)] = "err") =>
                    /\ e.consecutiveFailures = d.consecutiveFailures
                    /\ IsNull(e.pauseReason) /\ ~e.taskFailed
                    /\ GoesOn(e, d.stepIdx, hasUrl, running)]_vars

\* A run has gone on after two failed steps in a row and ended done with its
\* third step answered.
C35_Witness ==
    \E i \in ExecIds :
        /\ execs[i].pc = "done"
        /\ execs[i].steps = <<"err", "err", "ok">>
        /\ execs[i].final = Some("done")
        /\ tasks[execs[i].taskId].status = "done"

\* C36: when the observation of a step throws, the completion of that step is
\* requested all the same, the count of consecutive failures stays as it is,
\* nothing is recorded as failed, and the run is neither paused nor failed.
C36_ObserverFailureNotFatal ==
    [][\A i \in ExecIds, obs \in Observations :
          (obs.throws /\ ObserveDone(i, obs)) =>
             /\ execs'[i].pc = "step"
             /\ execs'[i].stepIdx = execs[i].stepIdx
             /\ execs'[i].requested = execs[i].requested + 1
             /\ execs'[i].consecutiveFailures = execs[i].consecutiveFailures
             /\ execs'[i].steps = execs[i].steps
             /\ IsNull(execs'[i].pauseReason) /\ ~execs'[i].taskFailed
             /\ tasks' = tasks]_vars

\* The completion of the second step is awaited after its observation threw,
\* the first step having failed: one failure counted, the task still running.
C36_Witness ==
    \E i \in ExecIds :
        /\ execs[i].pc = "step"
        /\ execs[i].page = Some([throws |-> TRUE, alerts |-> <<>>])
        /\ execs[i].stepIdx = 1
        /\ execs[i].steps = <<"err">>
        /\ execs[i].consecutiveFailures = 1
        /\ tasks[execs[i].taskId].status = "running"

\* The rows of table agent_state: agent_id is its primary key.
AgentStateRows(as) ==
    {[agentId |-> a, currentTaskId |-> Val(as[a]).currentTaskId,
      currentStepIndex |-> Val(as[a]).currentStepIndex] :
        a \in {x \in Agents : ~IsNull(as[x])}}

\* C37: table agent_state never holds two rows of one agent, and each time a
\* run records a step the runner's row is overwritten with the task of that
\* run as current task and the index of the step just executed.
C37_OneAgentStateRowPerAgent ==
    [][/\ \A a \in Agents :
             Cardinality({r \in AgentStateRows(agentState') : r.agentId = a}) <= 1
       /\ \A i \in ExecIds :
             Len(execs'[i].steps) > Len(execs[i].steps) =>
                {r \in AgentStateRows(agentState') : r.agentId = RunnerAgent}
                   = {[agentId |-> RunnerAgent,
                       currentTaskId |-> Some(execs[i].taskId),
                       currentStepIndex |-> Some(execs[i].stepIdx)]}]_vars

\* In the second run of a task the runner's row, cleared at the end of the
\* first run, holds the task and the index of the third step.
C37_Witness ==
    /\ Len(execs) = 2
    /\ execs[1].pc = "done"
    /\ InFlight(execs[2])
    /\ Len(execs[2].steps) = MaxPlanLen
    /\ AgentStateRows(agentState)
          = {[agentId |-> RunnerAgent, currentTaskId |-> Some(execs[2].taskId),
              currentStepIndex |-> Some(MaxPlanLen - 1)]}

\* C38: a run ends on the success path, its task marked done or requeued, only
\* if its plan had at least one step and every step of the plan, up to the
\* cap of 20, was executed in the run.
C38_DoneOnlyAfterWholePlan ==
    [][\A i \in ExecIds :
          (LeavesLoop(i) /\ execs'[i].final \in {Some("done"), Some("queued")}) =>
             /\ Len(execs'[i].plan) >= 1
             /\ Len(execs'[i].steps) = Min(Len(execs'[i].plan), MAX_STEPS_PER_RUN)]_vars

\* C39: every queued task of the agent whose next_run_at is unset or has
\* passed is claimed in the end, whatever else is in the queue.
C39_NoStarvation ==
    \A id \in 1..MaxStoreTasks :
        (id \in TaskIds /\ id \in Eligible(tasks, RunnerAgent, now))
           ~> (id \in TaskIds /\ tasks[id].status = "running")

\* C40: within one call of complete() no provider and credential pair is
\* attempted twice, whatever the priority list and whichever attempts fail.
C40_EachPairAttemptedOnce ==
    \A c \in 1..Len(dispatches) :
        dispatches[c].op = "complete" =>
            \A a, b \in 1..Len(dispatches[c].tried) :
                (/\ dispatches[c].tried[a].provider = dispatches[c].tried[b].provider
                 /\ dispatches[c].tried[a].key = dispatches[c].tried[b].key) => a = b

====
